---- MODULE Spec2Model ----
(***************************************************************************)
(* State-machine model of vitabench:                                       *)
(*   - the judge-panel evaluator (vita/evaluator/evaluator.py),            *)
(*   - the delivery / instore / OTA order tools (vita/domains/*/tools.py), *)
(*   - the per-thread registries (vita/data_model/thread_safe_base.py),    *)
(*   - the agent's history and the LLM call (vita/agent/llm_agent.py,      *)
(*     vita/utils/llm_utils.py),                                           *)
(*   - the metric functions and the action comparison                      *)
(*     (vita/metrics/agent_metrics.py, vita/data_model/tasks.py).          *)
(* Rewards are fixed-point numbers in tenths (5 stands for 0.5, 10 for     *)
(* 1.0).  An absent value (Python None) is -1 for numbers and "None" for   *)
(* strings.                                                                *)
(***************************************************************************)
EXTENDS Integers, Sequences, FiniteSets, TLC

(* ------------------------------ bounds -------------------------------- *)
\* longest judge panel handed to evaluate_simulation
MaxPanel == 3

(* --------------------------- small helpers ---------------------------- *)
NoNum == -1
NoName == "None"

Range(s) == {s[i] : i \in DOMAIN s}

RECURSIVE SumSeq(_)
SumSeq(s) == IF s = <<>> THEN 0 ELSE Head(s) + SumSeq(Tail(s))

\* sequences over S without repetition, of length 0..n
DistinctSeqs(S, n) ==
  UNION {{s \in [1..k -> S] : \A i, j \in 1..k : i # j => s[i] # s[j]} : k \in 0..n}

(* ====================================================================== *)
(*                      Judge-panel evaluator                             *)
(* ====================================================================== *)

\* judge (llm evaluator) names; a panel is a set of judges, so the names of
\* one panel are distinct
EvaluatorNames == {"J1", "J2", "J3"}

\* rewards a judge can return, in tenths
JudgeRewards == {0, 4, 5, 10}

\* SimulationRun.termination_reason
TerminationReasons ==
  {"USER_STOP", "TOO_MANY_ERRORS", "MAX_STEPS", "INVALID_AGENT_MESSAGE"}

VARIABLES
  termination_reason,   \* simulation.termination_reason
  has_criteria,         \* task.evaluation_criteria is not None
  llm_evaluators,       \* the panel: sequence of judge names
  n_args,               \* len(llm_args_evaluators)
  parallel_evaluators,  \* run the judges on a thread pool
  epc,                  \* position in evaluate_simulation
  attempt,              \* per panel position: attempts of _call_with_retries so far
  finished,             \* per panel position: _run_one_evaluator has returned
  call_log,             \* per panel position: outcome of every judge call made
  results_by_name,      \* name -> [reward, attempts, err]
  completed,            \* the keys of results_by_name in insertion order
  judge_records,        \* audit records, in panel order
  successes,            \* <<name, reward>> of the judges that returned
  replacements,         \* one entry per substituted vote
  final_votes,          \* votes in judge_records order
  final_votes_by_evaluator, \* name -> vote
  outcome               \* what evaluate_simulation gave back

evars == <<termination_reason, has_criteria, llm_evaluators, n_args,
           parallel_evaluators, epc, attempt, finished, call_log,
           results_by_name, completed, judge_records, successes, replacements,
           final_votes, final_votes_by_evaluator, outcome>>

\* The database of one simulation and the tool calls made on it (the order
\* tools are modelled further down).
VARIABLES
  orders,        \* db.orders: order_id -> Order
  books,         \* db.books: book_id -> BookInfo
  reservations,  \* db.reservations: reservation_id -> ReservationInfo
  quantity,      \* catalog object -> its quantity field
  registry,      \* ProductBaseModel polymorphic registry: product_id -> object
  db_time,       \* db.time (NoNum when the task pins no time)
  wall,          \* the wall clock, datetime.now()
  kit,           \* the scenario whose tools the agent calls
  ncalls,        \* tool calls made so far
  ret            \* what the last tool call gave back

tvars == <<orders, books, reservations, quantity, registry, db_time, wall, kit,
           ncalls, ret>>
dbvars == <<orders, books, reservations, quantity, registry>>

\* The per-thread registries of one ThreadSafeBase class and the threads that
\* use them (the methods are modelled further down).
VARIABLES
  attrs,            \* the class attributes _global_instances, _polymorphic_instances
  threads,          \* each thread: "new", "live" or "dead"
  ident,            \* threading.get_ident() of each thread, 0 before it starts
  tpc,              \* the method each thread is in and the step it is at
  current_threads,  \* cleanup_thread's local set of live thread ids
  instances,        \* register_instance's local dict: whether the class still holds it
  returned,         \* what get_all / get_all_polymorphic last gave each thread
  nops              \* method calls begun so far

hvars == <<attrs, threads, ident, tpc, current_threads, instances, returned, nops>>

\* One agent of one simulation (LLMAgent or LLMSoloAgent), its message history
\* and the generate call it is in (both are modelled further down).
VARIABLES
  agent,         \* the class of the agent
  messages,      \* state.messages: the agent's message history
  num_retries,   \* llm_args["num_retries"] (NoNum when it is not set)
  apc,           \* position in generate_next_message
  message,       \* the message generate_next_message was called with
  llm_attempt,   \* generate's loop variable attempt
  retry_delay,   \* generate's retry_delay, in seconds
  slept,         \* the time.sleep calls of the current generate call, in order
  created,       \* what each chat.completions.create of the current call did
  generated,     \* what generate gave back
  replied,       \* what generate_next_message gave back
  emitted,       \* messages emitted in the simulation so far
  nturns         \* generate_next_message calls so far

avars == <<agent, messages, num_retries, apc, message, llm_attempt, retry_delay,
           slept, created, generated, replied, emitted, nturns>>

\* The call of one metric or comparison function (modelled further down).
VARIABLES
  fcall,         \* the function called and its arguments
  fresult        \* what it gave back

fvars == <<fcall, fresult>>

vars == <<evars, tvars, hvars, avars, fvars>>

\* no agent has been built
AgentParked ==
  /\ agent = "none"
  /\ messages = <<>>
  /\ num_retries = -1
  /\ apc = "none"
  /\ message = <<>>
  /\ llm_attempt = 0
  /\ retry_delay = 0
  /\ slept = <<>>
  /\ created = <<>>
  /\ generated = <<>>
  /\ replied = <<>>
  /\ emitted = 0
  /\ nturns = 0

\* no function has been called
FunctionsParked ==
  /\ fcall = <<>>
  /\ fresult = <<>>

\* no thread has been started
ThreadsParked ==
  /\ attrs = <<>>
  /\ threads = <<>>
  /\ ident = <<>>
  /\ tpc = <<>>
  /\ current_threads = <<>>
  /\ instances = <<>>
  /\ returned = <<>>
  /\ nops = 0

\* evaluator.py:97-101
PrematureReasons == {"TOO_MANY_ERRORS", "MAX_STEPS", "INVALID_AGENT_MESSAGE"}

IsPrematureDropped(reason) == reason \in {"TOO_MANY_ERRORS", "INVALID_AGENT_MESSAGE"}
IsPremature(reason) == reason \in PrematureReasons

\* evaluator.py:63-64
StrictVote(reward) == IF reward > 5 THEN 1 ELSE 0
_vote_from_reward(reward) == IF reward >= 5 THEN 1 ELSE 0

\* evaluator.py:143 (retries=3)
Retries == 3

\* float(majority_vote), in tenths
FloatOfVote(v) == v * 10

NoOutcome == [kind |-> "none", reward |-> NoNum, chosen |-> NoName, majority_vote |-> NoNum]

Panel == DOMAIN llm_evaluators

\* no tool kit is in use
ToolsParked ==
  /\ orders = <<>>
  /\ books = <<>>
  /\ reservations = <<>>
  /\ quantity = <<>>
  /\ registry = <<>>
  /\ db_time = NoNum
  /\ wall = 0
  /\ kit = "none"
  /\ ncalls = 0
  /\ ret = <<>>

EvalInit ==
  /\ ToolsParked
  /\ ThreadsParked
  /\ AgentParked
  /\ FunctionsParked
  /\ termination_reason \in TerminationReasons
  /\ has_criteria \in BOOLEAN
  /\ llm_evaluators \in DistinctSeqs(EvaluatorNames, MaxPanel)
  /\ n_args \in {Len(llm_evaluators), Len(llm_evaluators) + 1}
  /\ parallel_evaluators \in BOOLEAN
  /\ epc = "start"
  /\ attempt = [i \in Panel |-> 0]
  /\ finished = [i \in Panel |-> FALSE]
  /\ call_log = [i \in Panel |-> <<>>]
  /\ results_by_name = <<>>
  /\ completed = <<>>
  /\ judge_records = <<>>
  /\ successes = <<>>
  /\ replacements = <<>>
  /\ final_votes = <<>>
  /\ final_votes_by_evaluator = <<>>
  /\ outcome = NoOutcome

\* evaluator.py:108: task.evaluation_criteria is None
CriteriaNeverMissing == FALSE
NoCriteria == ~has_criteria

\* evaluator.py:125: len(llm_evaluators) % 2 == 0
AnyLength(names) == FALSE
EvenLength(names) == Len(names) % 2 = 0

\* evaluator.py:97-126: the early returns and the panel validation
EarlyOutcome ==
  IF IsPremature(termination_reason)
    THEN [NoOutcome EXCEPT !.kind = "returned", !.reward = 0]
  ELSE IF NoCriteria
    THEN [NoOutcome EXCEPT !.kind = "returned", !.reward = 10]
  ELSE IF Len(llm_evaluators) # n_args
    THEN [NoOutcome EXCEPT !.kind = "ValueError"]
  ELSE IF Len(llm_evaluators) < 1
    THEN [NoOutcome EXCEPT !.kind = "ValueError"]
  ELSE IF EvenLength(llm_evaluators)
    THEN [NoOutcome EXCEPT !.kind = "ValueError"]
  ELSE NoOutcome

Enter ==
  /\ epc = "start"
  /\ outcome' = EarlyOutcome
  /\ epc' = IF EarlyOutcome.kind = "none" THEN "judging" ELSE "done"
  /\ UNCHANGED <<termination_reason, has_criteria, llm_evaluators, n_args,
                 parallel_evaluators, attempt, finished, call_log,
                 results_by_name, judge_records, successes, replacements,
                 final_votes, final_votes_by_evaluator>>
  /\ UNCHANGED completed
  /\ UNCHANGED <<tvars, hvars, avars, fvars>>

\* f with key k bound to v (a Python dict assignment)
DictPut(f, k, v) == [x \in DOMAIN f \cup {k} |-> IF x = k THEN v ELSE f[x]]

\* evaluator.py:149-165: which panel position may make its next judge call.
\* Sequentially the judges run in panel order; on the pool they interleave.
MayRun(i) ==
  /\ ~finished[i]
  /\ \/ parallel_evaluators /\ Len(llm_evaluators) > 1
     \/ \A j \in Panel : j < i => finished[j]

\* evaluator.py:67-82: one iteration of _call_with_retries for position i:
\* fn() returns a reward (r >= 0) or raises (r = NoNum)
RetryStopsOnlyAtLimit(i, r) == attempt[i] + 1 >= Retries
RetryStops(i, r) == r # NoNum \/ attempt[i] + 1 >= Retries

JudgeCall(i, r) ==
  /\ epc = "judging"
  /\ MayRun(i)
  /\ attempt[i] < Retries
  /\ attempt' = [attempt EXCEPT ![i] = @ + 1]
  /\ call_log' = [call_log EXCEPT ![i] = Append(@, IF r = NoNum THEN "raised" ELSE "returned")]
  /\ IF RetryStops(i, r)
       THEN /\ finished' = [finished EXCEPT ![i] = TRUE]
            /\ results_by_name' =
                 DictPut(results_by_name, llm_evaluators[i],
                         [reward |-> r,
                          attempts |-> IF r # NoNum THEN attempt[i] + 1 ELSE Retries,
                          err |-> r = NoNum])
            /\ completed' = Append(completed, llm_evaluators[i])
       ELSE UNCHANGED <<finished, results_by_name, completed>>
  /\ UNCHANGED <<termination_reason, has_criteria, llm_evaluators, n_args,
                 parallel_evaluators, epc, judge_records, successes,
                 replacements, final_votes, final_votes_by_evaluator, outcome>>
  /\ UNCHANGED <<tvars, hvars, avars, fvars>>

\* evaluator.py:168: results_by_name.get(name, (name, None, 3, RuntimeError))
ResultOf(name) ==
  IF name \in DOMAIN results_by_name
    THEN results_by_name[name]
    ELSE [reward |-> NoNum, attempts |-> 3, err |-> TRUE]

\* evaluator.py:170-207: the audit record of one panel position
RecordOf(name) ==
  LET res == ResultOf(name) IN
  IF ~res.err /\ res.reward # NoNum
    THEN [llm_evaluator |-> name, status |-> "success", attempts |-> res.attempts,
          reward |-> res.reward, vote |-> _vote_from_reward(res.reward),
          replacement_picked |-> NoName, replacement_vote |-> NoNum]
    ELSE [llm_evaluator |-> name, status |-> "failed", attempts |-> res.attempts,
          reward |-> NoNum, vote |-> NoNum,
          replacement_picked |-> NoName, replacement_vote |-> NoNum]

RECURSIVE SelectSuccesses(_)
SelectSuccesses(recs) ==
  IF recs = <<>> THEN <<>>
  ELSE LET rest == SelectSuccesses(Tail(recs)) IN
       IF Head(recs).status = "success"
         THEN <<[name |-> Head(recs).llm_evaluator, reward |-> Head(recs).reward]>> \o rest
         ELSE rest

\* evaluator.py:212: the evaluation is aborted when no judge returned
AbortSkipped(succ) == FALSE
MustAbort(succ) == Len(succ) = 0

\* evaluator.py:167: the records follow zip(llm_evaluators, llm_args_evaluators)
CompletedName(i) == completed[i]
PanelName(i) == llm_evaluators[i]

\* evaluator.py:167-218: partition the results, abort when nothing succeeded
Collect ==
  /\ epc = "judging"
  /\ \A i \in Panel : finished[i]
  /\ LET recs == [i \in Panel |-> RecordOf(PanelName(i))]
         succ == SelectSuccesses(recs)
     IN /\ judge_records' = recs
        /\ successes' = succ
        /\ IF MustAbort(succ)
             THEN /\ epc' = "done"
                  /\ outcome' = [NoOutcome EXCEPT !.kind = "EvaluationAbortedError"]
             ELSE /\ epc' = "replacing"
                  /\ UNCHANGED outcome
  /\ UNCHANGED <<termination_reason, has_criteria, llm_evaluators, n_args,
                 parallel_evaluators, attempt, finished, call_log,
                 results_by_name, replacements, final_votes,
                 final_votes_by_evaluator>>
  /\ UNCHANGED completed
  /\ UNCHANGED <<tvars, hvars, avars, fvars>>

\* evaluator.py:220-222
success_votes_by_name ==
  [nm \in {successes[k].name : k \in DOMAIN successes} |->
     LET last == CHOOSE k \in DOMAIN successes :
                   /\ successes[k].name = nm
                   /\ \A m \in DOMAIN successes : successes[m].name = nm => m <= k
     IN _vote_from_reward(successes[last].reward)]

\* evaluator.py:236: the candidates random.choice(successes) draws from
ReplacementCandidates(succ) == {succ[k].name : k \in DOMAIN succ}

\* evaluator.py:237: the vote adopted from the picked success
FirstSuccessVote(picked_name) == _vote_from_reward(successes[1].reward)
ReplacementVote(picked_name) == success_votes_by_name[picked_name]

\* evaluator.py:228-258: one iteration of the loop over judge_records
Replace(picked_name) ==
  /\ epc = "replacing"
  /\ Len(final_votes) < Len(judge_records)
  /\ LET k == Len(final_votes) + 1
         record == judge_records[k]
         name == record.llm_evaluator
     IN IF record.status = "success"
          THEN /\ picked_name = name
               /\ final_votes' = Append(final_votes, record.vote)
               /\ final_votes_by_evaluator' =
                    DictPut(final_votes_by_evaluator, name, record.vote)
               /\ UNCHANGED <<judge_records, replacements>>
          ELSE /\ picked_name \in ReplacementCandidates(successes)
               /\ picked_name \in DOMAIN success_votes_by_name
               /\ LET vote == ReplacementVote(picked_name) IN
                  /\ final_votes' = Append(final_votes, vote)
                  /\ final_votes_by_evaluator' =
                       DictPut(final_votes_by_evaluator, name, vote)
                  /\ judge_records' =
                       [judge_records EXCEPT ![k].replacement_picked = picked_name,
                                             ![k].replacement_vote = vote]
                  /\ replacements' =
                       Append(replacements,
                              [failed |-> name, picked |-> picked_name, vote |-> vote])
  /\ UNCHANGED <<termination_reason, has_criteria, llm_evaluators, n_args,
                 parallel_evaluators, epc, attempt, finished, call_log,
                 results_by_name, successes, outcome>>
  /\ UNCHANGED completed
  /\ UNCHANGED <<tvars, hvars, avars, fvars>>

\* evaluator.py:260
NonStrictMajority(votes) == IF SumSeq(votes) >= (Len(votes) \div 2) THEN 1 ELSE 0
MajorityVote(votes) == IF SumSeq(votes) > (Len(votes) \div 2) THEN 1 ELSE 0

\* evaluator.py:261-265: next(...) over the successes voting with the majority
AnySuccess(mv) == DOMAIN successes
ChosenIndexes(mv) ==
  {k \in DOMAIN successes : _vote_from_reward(successes[k].reward) = mv}

\* evaluator.py:260-287
Finish ==
  /\ epc = "replacing"
  /\ Len(final_votes) = Len(judge_records)
  /\ LET majority_vote == MajorityVote(final_votes)
         cands == ChosenIndexes(majority_vote)
     IN outcome' =
          IF cands = {}
            THEN [NoOutcome EXCEPT !.kind = "StopIteration"]
            ELSE [kind |-> "returned",
                  reward |-> FloatOfVote(majority_vote),
                  chosen |-> successes[CHOOSE k \in cands : \A m \in cands : k <= m].name,
                  majority_vote |-> majority_vote]
  /\ epc' = "done"
  /\ UNCHANGED <<termination_reason, has_criteria, llm_evaluators, n_args,
                 parallel_evaluators, attempt, finished, call_log,
                 results_by_name, judge_records, successes, replacements,
                 final_votes, final_votes_by_evaluator>>
  /\ UNCHANGED completed
  /\ UNCHANGED <<tvars, hvars, avars, fvars>>

EvalNext ==
  \/ Enter
  \/ \E i \in Panel : \E r \in JudgeRewards \cup {NoNum} : JudgeCall(i, r)
  \/ Collect
  \/ \E nm \in EvaluatorNames : Replace(nm)
  \/ Finish


(* ====================================================================== *)
(*          Order tools of the delivery, instore and OTA toolkits         *)
(* ====================================================================== *)
(* One simulation's database.  Prices are integers, times are integers    *)
(* (a larger number is a later time).  A catalog product is an object     *)
(* <<store, index>>; its only mutable field is quantity.  An order line   *)
(* item is either a fresh product object (a value) or, for instore        *)
(* orders, the catalog object itself (alias = TRUE).                      *)
(* ---------------------------------------------------------------------- *)

\* number of tool calls of one simulation
MaxCalls == 3
\* last value of the wall clock
MaxWall == 2
\* largest quantity / count argument of a create tool
MaxQty == 2

\* db.user_id and another user
DbUser == "U"
Users == {"U", "V"}

\* tasks.py:305-314
OrderStatus == {"unpaid", "paid", "unconsumed", "consumed", "processed",
                "in-progress", "delivered", "cancelled"}
\* tasks.py:316
OrderType == {"delivery", "instore", "hotel", "attraction", "flight", "train"}

\* the catalogs of the task environment: db.hotels, db.attractions,
\* db.flights, db.trains, db.stores, db.shops, each store with its products
StoreKind ==
  [H1 |-> "hotel", A1 |-> "attraction", F1 |-> "flight", T1 |-> "train",
   S1 |-> "delivery", P1 |-> "instore", P2 |-> "instore", P3 |-> "instore"]
StoreIds == DOMAIN StoreKind

Prod(cls, pid, date, kind, price, q) ==
  [cls |-> cls, product_id |-> pid, date |-> date, kind |-> kind,
   price |-> price, quantity |-> q]

Catalog ==
  [H1 |-> <<Prod("HotelProduct", "R1", "d1", "king", 4, 2),
            Prod("HotelProduct", "R2", "d1", "twin", 6, 1)>>,
   A1 |-> <<Prod("AttractionProduct", "K1", "d1", "adult", 2, 2),
            Prod("AttractionProduct", "K2", "d2", "adult", 3, 1)>>,
   F1 |-> <<Prod("FlightProduct", "FS1", "d1", "eco", 5, 2),
            Prod("FlightProduct", "FS2", "d2", "eco", 7, 2)>>,
   T1 |-> <<Prod("TrainProduct", "TS1", "d1", "2nd", 5, 2),
            Prod("TrainProduct", "TS2", "d2", "2nd", 7, 2)>>,
   S1 |-> <<Prod("StoreProduct", "D1", "", "", 3, 5),
            Prod("StoreProduct", "D2", "", "", 2, 5)>>,
   P1 |-> <<Prod("ShopProduct", "I1", "", "", 3, 1)>>,
   P2 |-> <<Prod("ShopProduct", "I2", "", "", 5, 1)>>,
   P3 |-> <<>>]

\* instore/data_model.py:30-32
Shops ==
  [P1 |-> [enable_book |-> TRUE, book_price |-> 2, enable_reservation |-> FALSE],
   P2 |-> [enable_book |-> FALSE, book_price |-> 0, enable_reservation |-> TRUE],
   P3 |-> [enable_book |-> TRUE, book_price |-> 0, enable_reservation |-> TRUE]]

CatalogObjs == UNION {{<<st, i>> : i \in DOMAIN Catalog[st]} : st \in StoreIds}

Dates == {"d1", "d2"}
\* the dates and a string that is no date
DateArgs == Dates \cup {"bad"}
check_date_format(date) == date # "bad"


\* a line item that is its own object
Item(cls, pid, date, kind, price, q) ==
  [alias |-> FALSE, obj |-> <<"None", 0>>, cls |-> cls, product_id |-> pid,
   date |-> date, kind |-> kind, price |-> price, quantity |-> q]
\* a line item that is the catalog object o
AliasItem(o) ==
  [alias |-> TRUE, obj |-> o, cls |-> Catalog[o[1]][o[2]].cls,
   product_id |-> Catalog[o[1]][o[2]].product_id,
   date |-> "", kind |-> "", price |-> Catalog[o[1]][o[2]].price, quantity |-> 0]

\* the fields of a line item as a reader of the order sees them
ItemQuantity(it) == IF it.alias THEN quantity[it.obj] ELSE it.quantity

\* toolkit.py:508-511
get_now == IF db_time # NoNum THEN db_time ELSE wall

\* a table in which the instore scenarios hash the user id as well
ScenarioConfigsWithUser ==
  [delivery |-> [prefix |-> "#DELIVERY#", id_prefix |-> "OT", params |-> <<"user_id">>],
   hotel |-> [prefix |-> "#HOTEL#", id_prefix |-> "OO",
              params |-> <<"hotel_id", "product_id", "user_id">>],
   attraction |-> [prefix |-> "#ATTRACTION#", id_prefix |-> "OO", params |-> <<"user_id">>],
   flight |-> [prefix |-> "#FLIGHT#", id_prefix |-> "OO", params |-> <<"user_id">>],
   train |-> [prefix |-> "#TRAIN#", id_prefix |-> "OO", params |-> <<"user_id">>],
   instore |-> [prefix |-> "#INSTORE#", id_prefix |-> "OI", params |-> <<"user_id">>],
   instore_book |-> [prefix |-> "#INSTORE_BOOK#", id_prefix |-> "OI",
                     params |-> <<"user_id">>],
   instore_reservation |-> [prefix |-> "#INSTORE_RESV#", id_prefix |-> "OI",
                            params |-> <<"user_id">>]]

\* db.py:63-104
ScenarioConfigs ==
  [delivery |-> [prefix |-> "#DELIVERY#", id_prefix |-> "OT", params |-> <<"user_id">>],
   hotel |-> [prefix |-> "#HOTEL#", id_prefix |-> "OO",
              params |-> <<"hotel_id", "product_id", "user_id">>],
   attraction |-> [prefix |-> "#ATTRACTION#", id_prefix |-> "OO", params |-> <<"user_id">>],
   flight |-> [prefix |-> "#FLIGHT#", id_prefix |-> "OO", params |-> <<"user_id">>],
   train |-> [prefix |-> "#TRAIN#", id_prefix |-> "OO", params |-> <<"user_id">>],
   instore |-> [prefix |-> "#INSTORE#", id_prefix |-> "OI", params |-> <<>>],
   instore_book |-> [prefix |-> "#INSTORE_BOOK#", id_prefix |-> "OI", params |-> <<>>],
   instore_reservation |-> [prefix |-> "#INSTORE_RESV#", id_prefix |-> "OI", params |-> <<>>]]

\* utils.py:53: a sha256 hexdigest has 64 hexadecimal characters
DigestLen == 64

\* db.py:123: the slice [:10] of the digest
HashDigits == 10

\* the concatenation of a sequence of strings
RECURSIVE Concat(_)
Concat(parts) == IF parts = <<>> THEN "" ELSE Head(parts) \o Concat(Tail(parts))

\* an order id that is in no table
UnknownId == [id_prefix |-> "OX", hash_input |-> "?", timestamp |-> 0, hex_digits |-> 0]

\* db.py:49-125 for a reading `clock` of datetime.now(): the id is id_prefix
\* followed by the first 10 hex digits of sha256(hash_input + str(timestamp)),
\* where hash_input is the scenario's prefix followed by its parameters in
\* order.  The digest is kept symbolic: an id records what was hashed and how
\* many hex digits are kept.  An unsupported scenario and a missing parameter
\* raise ValueError and no id is returned.
AssignOrderId(scenario, user_id, kw, clock) ==
  IF scenario \notin DOMAIN ScenarioConfigs
    THEN [kind |-> "raise", msg |-> "Unsupported scenario type", id |-> UnknownId]
  ELSE
    LET config == ScenarioConfigs[scenario]
        given(param) == param = "user_id" \/ param \in DOMAIN kw
        part(param) == IF param = "user_id" THEN user_id ELSE kw[param]
    IN IF \E k \in DOMAIN config.params : ~given(config.params[k])
         THEN [kind |-> "raise", msg |-> "Missing required parameter", id |-> UnknownId]
         ELSE [kind |-> "ok", msg |-> "",
               id |-> [id_prefix |-> config.id_prefix,
                       hash_input |-> config.prefix \o
                         Concat([k \in DOMAIN config.params |-> part(config.params[k])]),
                       timestamp |-> clock,
                       hex_digits |-> IF HashDigits < DigestLen THEN HashDigits
                                                               ELSE DigestLen]]

\* the id assigned to a call made by a tool at the present clock reading
assign_order_id(scenario, user_id, kw) == AssignOrderId(scenario, user_id, kw, wall).id

\* the id of an order that the task environment already holds
EnvId == [id_prefix |-> "OO", hash_input |-> "env", timestamp |-> 0, hex_digits |-> 10]

NoRet == [tool |-> "none", kind |-> "none", msg |-> "", id |-> UnknownId,
          refund |-> NoNum, diff |-> NoNum, args |-> ""]

\* a returned string; kind "msg" is an error/notice string, "ok" a success
Reply(tool, kind, msg, id) ==
  [tool |-> tool, kind |-> kind, msg |-> msg, id |-> id, refund |-> NoNum, diff |-> NoNum,
   args |-> ""]

\* the reply r of a call made with the arguments a
WithArgs(r, a) == [r EXCEPT !.args = a]

\* a wrapper that turns every exception into a returned string
CatchEverything(raw) ==
  IF raw.kind \in {"AssertionError", "ValueError"}
    THEN [raw EXCEPT !.kind = "assert"]
    ELSE raw

\* toolkit.py:144-148: the is_tool wrapper returns what the tool returns,
\* turns an AssertionError into the returned string str(e) (kind "assert")
\* and lets every other exception through to the caller (kind "raise")
is_tool(raw) ==
  IF raw.kind = "AssertionError" THEN [raw EXCEPT !.kind = "assert"]
  ELSE IF raw.kind = "ValueError" THEN [raw EXCEPT !.kind = "raise"]
  ELSE raw

\* a failed `assert cond, msg` in the body of a tool
AssertMsg(tool, msg, id) == is_tool(Reply(tool, "AssertionError", msg, id))

\* a ValueError that the body of a tool does not catch
Uncaught(tool, id) == is_tool(Reply(tool, "ValueError", "ValueError", id))

_check_user(user_id) == user_id = DbUser

NewOrder(type, user_id, store_id, total, items) ==
  [order_type |-> type, user_id |-> user_id, store_id |-> store_id,
   status |-> "unpaid", total_price |-> total, create_time |-> get_now,
   update_time |-> get_now, note |-> "", products |-> items]

\* an order the task environment holds at the start: two units bought at a
\* price of 6 each (the catalog's prices may have changed since)
EnvOrder(type, status) ==
  [order_type |-> type, user_id |-> DbUser,
   store_id |-> CHOOSE st \in StoreIds : StoreKind[st] = type /\ st \notin {"P2", "P3"},
   status |-> status,
   total_price |-> 12, create_time |-> 0, update_time |-> 0, note |-> "",
   products |-> <<Item(CASE type = "hotel" -> "HotelProduct"
                         [] type = "attraction" -> "AttractionProduct"
                         [] type = "flight" -> "FlightProduct"
                         [] type = "train" -> "TrainProduct"
                         [] type = "delivery" -> "StoreProduct"
                         [] OTHER -> "ShopProduct",
                       CASE type = "hotel" -> "R1"
                         [] type = "attraction" -> "K1"
                         [] type = "flight" -> "FS1"
                         [] type = "train" -> "TS1"
                         [] type = "delivery" -> "D1"
                         [] OTHER -> "I1",
                       IF type \in {"delivery", "instore"} THEN "" ELSE "d1",
                       CASE type = "hotel" -> "king"
                         [] type = "attraction" -> "adult"
                         [] type = "flight" -> "eco"
                         [] type = "train" -> "2nd"
                         [] OTHER -> "",
                       6, 2)>>]

EnvStatuses == {"unpaid", "paid", "cancelled", "delivered"}

\* tasks.py:358-361 at load time: every catalog product registers itself
\* under its product_id, a later one replacing an earlier one
InitRegistry ==
  [pid \in {Catalog[o[1]][o[2]].product_id : o \in CatalogObjs} |->
     LET os == {o \in CatalogObjs : Catalog[o[1]][o[2]].product_id = pid}
         last == CHOOSE o \in os : \A o2 \in os : o2[2] <= o[2]
     IN AliasItem(last)]

\* what a simulation that ran earlier on the thread registered and the present
\* environment does not hold: one product of another delivery store
EarlierProducts == ("D9" :> Item("StoreProduct", "D9", "", "", 4, 1))

\* the product registry a thread may hold when a simulation starts on it:
\* nothing, or what an earlier simulation left there
ThreadRegistries == {<<>>, EarlierProducts}

\* delivery/environment.py:11-37: model_validate builds every store and
\* product of the blob, and each registers itself under its id in the
\* thread's registry; what the registry held before stays unless overwritten
get_environment(thread_registry) ==
  [pid \in DOMAIN thread_registry \cup DOMAIN InitRegistry |->
     IF pid \in DOMAIN InitRegistry THEN InitRegistry[pid] ELSE thread_registry[pid]]

\* the evaluator is not running
EvalParked ==
  /\ termination_reason = "USER_STOP"
  /\ has_criteria = TRUE
  /\ llm_evaluators = <<>>
  /\ n_args = 0
  /\ parallel_evaluators = FALSE
  /\ epc = "done"
  /\ attempt = <<>>
  /\ finished = <<>>
  /\ call_log = <<>>
  /\ results_by_name = <<>>
  /\ completed = <<>>
  /\ judge_records = <<>>
  /\ successes = <<>>
  /\ replacements = <<>>
  /\ final_votes = <<>>
  /\ final_votes_by_evaluator = <<>>
  /\ outcome = NoOutcome

\* another order type than the one whose tools are called
OtherType ==
  [delivery |-> "instore", instore |-> "delivery", hotel |-> "train",
   attraction |-> "hotel", flight |-> "train", train |-> "flight"]

\* a booking / a reservation the task environment holds at the start
EnvBook(status) ==
  [shop_id |-> "P1", book_time |-> MaxWall, customer_count |-> 2, book_price |-> 2,
   customer_id |-> DbUser, status |-> status, update_time |-> 0]
EnvReservation(status) ==
  [shop_id |-> "P2", reservation_time |-> MaxWall, customer_id |-> DbUser,
   customer_count |-> 2, status |-> status, update_time |-> 0]

\* the tool sets a behaviour may follow: one per scenario, and "db" for direct
\* calls of DB.assign_order_id
Kits == DOMAIN ScenarioConfigs \cup {"db"}

\* A simulation is followed through the tools of one scenario.  At the start
\* the database holds nothing, or one order (of the scenario's type or of
\* another type), booking or reservation.
ToolsInit ==
  /\ EvalParked
  /\ ThreadsParked
  /\ AgentParked
  /\ FunctionsParked
  /\ kit \in Kits
  /\ orders \in {<<>>} \cup
       (IF kit \in OrderType
          THEN {(EnvId :> EnvOrder(t, st)) : t \in {kit, OtherType[kit]}, st \in EnvStatuses}
          ELSE {})
  /\ books \in {<<>>} \cup
       (IF kit = "instore_book"
          THEN {(EnvId :> EnvBook(st)) : st \in {"unpaid", "paid", "cancelled"}}
          ELSE {})
  /\ reservations \in {<<>>} \cup
       (IF kit = "instore_reservation"
          THEN {(EnvId :> EnvReservation(st)) : st \in {"unconsumed", "consumed", "cancelled"}}
          ELSE {})
  /\ quantity = [o \in CatalogObjs |-> Catalog[o[1]][o[2]].quantity]
  /\ registry \in {get_environment(held) :
                      held \in IF kit = "delivery" THEN ThreadRegistries ELSE {<<>>}}
  /\ db_time \in {NoNum, 1}
  /\ wall = 1
  /\ ncalls = 0
  /\ ret = NoRet

\* the wall clock advances between tool calls
Tick ==
  /\ wall < MaxWall
  /\ wall' = wall + 1
  /\ UNCHANGED <<dbvars, db_time, kit, ncalls, ret>>
  /\ UNCHANGED <<evars, hvars, avars, fvars>>

\* the status test that opens every cancel tool
NeverCancelled(status) == FALSE
AlreadyCancelled(status) == status \in {"cancelled"}

\* the status test of every pay tool
PayableUnlessCancelled(status) == status # "cancelled"
Payable(status) == status = "unpaid"

\* a tool call that leaves the database as it is and answers r
Answer(r) ==
  /\ ret' = r
  /\ UNCHANGED dbvars

OrderIdArgs == DOMAIN orders \cup DOMAIN books \cup DOMAIN reservations \cup {UnknownId}

\* the first of the matching positions of a product list, 0 if there is none
FirstIndex(matches) ==
  IF matches = {} THEN 0
  ELSE CHOOSE i \in matches : \A j \in matches : i <= j

StoresOf(kind) == {st \in StoreIds : StoreKind[st] = kind}

(* ------------------------------- OTA ---------------------------------- *)

\* one tool call: the call counter advances, the clocks stay
Call ==
  /\ ncalls < MaxCalls
  /\ ncalls' = ncalls + 1
  /\ UNCHANGED <<db_time, wall, kit>>
  /\ UNCHANGED <<evars, hvars, avars, fvars>>

\* ota/tools.py:58-72
_add_ota_order(id, order) ==
  IF id \in DOMAIN orders THEN orders ELSE DictPut(orders, id, order)

\* a store of another kind, a product id no store has
WrongStore(kind) == IF kind = "hotel" THEN "A1" ELSE "H1"
NoProduct == "ZZ"
ProductIds(st) == {Catalog[st][i].product_id : i \in DOMAIN Catalog[st]}

\* the argument lists a create tool is called with: every well-formed call
\* for a product of the catalog, and one call for each way of being wrong
CreateCalls(kind, counts) ==
  LET st == CHOOSE x \in StoresOf(kind) : TRUE
      pid == CHOOSE x \in ProductIds(st) : TRUE
      call(s_, p_, u_, d_, q_) ==
        [store |-> s_, pid |-> p_, user |-> u_, date |-> d_, qty |-> q_]
  IN {call(s2, p, DbUser, d, q) :
        s2 \in StoresOf(kind), p \in ProductIds(st), d \in Dates, q \in counts}
       \cup {call(WrongStore(kind), pid, DbUser, "d1", 1),
              call(st, NoProduct, DbUser, "d1", 1),
              call(st, pid, "V", "d1", 1),
              call(st, pid, DbUser, "bad", 1),
              call(st, pid, DbUser, "d1", 0)}

\* ota/tools.py:354: the room has none left
NoRoomsWhenNegative(available) == available < 0
NoRooms(available) == available <= 0

\* ota/tools.py:413, 911: fewer units left than asked for
InsufficientWhenEmpty(available, requested) == available <= 0
Insufficient(available, requested) == available < requested

\* ota/tools.py:337-386
create_hotel_order(hotel_id, room_id, user_id) ==
  LET tool == "create_hotel_order"
      i == FirstIndex({k \in DOMAIN Catalog[hotel_id] :
                         Catalog[hotel_id][k].product_id = room_id})
      product == Catalog[hotel_id][i]
      ordered_room == Item("HotelProduct", product.product_id, product.date,
                           product.kind, product.price, 1)
      id == assign_order_id("hotel", user_id,
                            [hotel_id |-> hotel_id, product_id |-> room_id])
      order == NewOrder("hotel", user_id, hotel_id, ordered_room.price, <<ordered_room>>)
  IN
  /\ Call
  /\ IF ~_check_user(user_id)
       THEN Answer(AssertMsg(tool, "User ID does not match", UnknownId))
     ELSE IF hotel_id \notin StoresOf("hotel")
       THEN Answer(Reply(tool, "msg", "Error: not found", UnknownId))
     ELSE IF i = 0
       THEN Answer(Reply(tool, "msg", "Room not found in hotel", UnknownId))
     ELSE IF NoRooms(quantity[<<hotel_id, i>>])
       THEN Answer(Reply(tool, "msg", "No available rooms", UnknownId))
     ELSE
       /\ quantity' = [quantity EXCEPT ![<<hotel_id, i>>] = @ - 1]
       /\ registry' = DictPut(registry, room_id, ordered_room)
       /\ orders' = _add_ota_order(id, order)
       /\ ret' = IF id \in DOMAIN orders
                   THEN Reply(tool, "msg", "Failed to create order: Order already exists", id)
                   ELSE Reply(tool, "ok", "created", id)
       /\ UNCHANGED <<books, reservations>>

ProductClass ==
  [hotel |-> "HotelProduct", attraction |-> "AttractionProduct",
   flight |-> "FlightProduct", train |-> "TrainProduct"]

TicketScenes == {"attraction", "flight", "train"}

\* ota/tools.py:388-443 (attraction), 445-500 (flight), 502-557 (train)
create_ticket_order(scene, store_id, pid, user_id, date, qty) ==
  LET tool == "create_" \o scene \o "_order"
      i == FirstIndex({k \in DOMAIN Catalog[store_id] :
                         /\ Catalog[store_id][k].date = date
                         /\ Catalog[store_id][k].product_id = pid})
      target_product == Catalog[store_id][i]
      ordered == Item(ProductClass[scene], target_product.product_id, date,
                      target_product.kind, target_product.price, qty)
      id == assign_order_id(scene, user_id, <<>>)
      order == NewOrder(scene, user_id, store_id, ordered.price * ordered.quantity,
                        <<ordered>>)
  IN
  /\ Call
  /\ IF ~(qty > 0)
       THEN Answer(AssertMsg(tool, "Booking quantity must be greater than 0", UnknownId))
     ELSE IF ~check_date_format(date)
       THEN Answer(AssertMsg(tool, "Date format is incorrect", UnknownId))
     ELSE IF ~_check_user(user_id)
       THEN Answer(AssertMsg(tool, "User ID does not match", UnknownId))
     ELSE IF store_id \notin StoresOf(scene)
       THEN Answer(Reply(tool, "msg", "Error: not found", UnknownId))
     ELSE IF i = 0
       THEN Answer(Reply(tool, "msg", "does not have product on date", UnknownId))
     ELSE IF Insufficient(quantity[<<store_id, i>>], qty)
       THEN Answer(Reply(tool, "msg", "Insufficient inventory", UnknownId))
     ELSE
       /\ quantity' = [quantity EXCEPT ![<<store_id, i>>] = @ - qty]
       /\ registry' = DictPut(registry, pid, ordered)
       /\ orders' = _add_ota_order(id, order)
       /\ ret' = IF id \in DOMAIN orders
                   THEN Reply(tool, "msg", "Failed to create order: Order already exists", id)
                   ELSE Reply(tool, "ok", "created", id)
       /\ UNCHANGED <<books, reservations>>

OtaScenes == {"hotel", "attraction", "flight", "train"}

\* ota/tools.py:559-580 (hotel), 582-603 (attraction), 605-626 (flight),
\* 628-649 (train)
pay_ota_order(scene, order_id) ==
  LET tool == "pay_" \o scene \o "_order" IN
  /\ Call
  /\ IF order_id \notin DOMAIN orders
       THEN Answer(Reply(tool, "msg", "Error: not found", order_id))
     ELSE IF orders[order_id].order_type # scene
       THEN Answer(Reply(tool, "msg", "is not an order of this type", order_id))
     ELSE IF ~Payable(orders[order_id].status)
       THEN Answer(Reply(tool, "msg", "Order status must be unpaid", order_id))
     ELSE
       /\ orders' = [orders EXCEPT ![order_id].status = "paid",
                                   ![order_id].update_time = get_now]
       /\ ret' = Reply(tool, "ok", "Payment successful", order_id)
       /\ UNCHANGED <<books, reservations, quantity, registry>>

\* the refund a cancel tool of the OTA kit reports
RefundAlways(order) == order.total_price
CancelRefund(order) == IF order.status = "paid" THEN order.total_price ELSE 0

\* the catalog quantities with the units of an order's line item given back
InventoryRestored(order) ==
  LET item == order.products[1]
      st == order.store_id
      k == FirstIndex({j \in DOMAIN Catalog[st] :
                         /\ Catalog[st][j].product_id = item.product_id
                         /\ Catalog[st][j].date = item.date})
  IN IF k = 0 THEN quantity
     ELSE [quantity EXCEPT ![<<st, k>>] = @ + ItemQuantity(item)]
\* ota/tools.py:1055-1061: the quantities after a cancellation; the cancel
\* tools assign status and update_time and nothing of the catalog
InventoryAfterCancel(order) == quantity

\* ota/tools.py:1035-1065 (hotel), 1067-1097 (attraction), 1099-1129
\* (flight), 1131-1161 (train)
cancel_ota_order(scene, order_id, user_id) ==
  LET tool == "cancel_" \o scene \o "_order" IN
  /\ Call
  /\ IF ~_check_user(user_id)
       THEN Answer(AssertMsg(tool, "User ID does not match", order_id))
     ELSE IF order_id \notin DOMAIN orders
       THEN Answer(Reply(tool, "msg", "Error: not found", order_id))
     ELSE IF orders[order_id].order_type # scene
       THEN Answer(Reply(tool, "msg", "is not an order of this type", order_id))
     ELSE IF orders[order_id].user_id # user_id
       THEN Answer(Reply(tool, "msg", "does not belong to user", order_id))
     ELSE IF AlreadyCancelled(orders[order_id].status)
       THEN Answer(Reply(tool, "msg", "is already cancelled", order_id))
     ELSE
       /\ orders' = [orders EXCEPT ![order_id].status = "cancelled",
                                   ![order_id].update_time = get_now]
       /\ ret' = [Reply(tool, "ok", "Cancellation successful, refund amount", order_id)
                    EXCEPT !.refund = CancelRefund(orders[order_id])]
       /\ quantity' = InventoryAfterCancel(orders[order_id])
       /\ UNCHANGED <<books, reservations, registry>>

ModifyScenes == {"flight", "train"}

\* ota/tools.py:929 and 1011: the total of an order of qty tickets at a price
TotalOfOne(price, qty) == price
TotalOf(price, qty) == price * qty

\* whether a modification that changes the total by diff asks for payment
NeedsPaymentAlways(diff) == TRUE
NeedsPayment(diff) == diff > 0

\* the status test that opens modify_flight_order / modify_train_order
ModifiableUnlessCancelled(status) == status # "cancelled"
ModifiableStatus(status) == status = "paid"

\* ota/tools.py:871-951 (train), 953-1033 (flight)
\* The loop over the carrier's products that does not find the old date.
CreditNone(store_id, o, qty) == quantity

\* The loop that returns the seats to the first product of the order's old
\* date and seat type, when the carrier still lists one.
CreditOld(store_id, o, qty) ==
  IF o = 0 THEN quantity
  ELSE [quantity EXCEPT ![<<store_id, o>>] = @ + qty]

modify_ota_order(scene, order_id, user_id, new_date) ==
  LET tool == "modify_" \o scene \o "_order"
      order == orders[order_id]
      old_product == order.products[1]
      store_id == order.store_id
      seat_type == old_product.kind
      qty == ItemQuantity(old_product)
      n == FirstIndex({k \in DOMAIN Catalog[store_id] :
                         /\ Catalog[store_id][k].date = new_date
                         /\ Catalog[store_id][k].kind = seat_type})
      o == FirstIndex({k \in DOMAIN Catalog[store_id] :
                         /\ Catalog[store_id][k].date = old_product.date
                         /\ Catalog[store_id][k].kind = seat_type})
      new_product == Catalog[store_id][n]
      credited == CreditOld(store_id, o, qty)
      old_total == TotalOf(old_product.price, qty)
      new_total == TotalOf(new_product.price, qty)
      diff == new_total - old_total
      item == Item(ProductClass[scene], new_product.product_id, new_date, seat_type,
                   new_product.price, qty)
  IN
  /\ Call
  /\ IF ~_check_user(user_id)
       THEN Answer(WithArgs(AssertMsg(tool, "User ID does not match", order_id), new_date))
     ELSE IF ~check_date_format(new_date)
       THEN Answer(WithArgs(AssertMsg(tool, "Date format is incorrect", order_id), new_date))
     ELSE IF order_id \notin DOMAIN orders
       THEN Answer(WithArgs(Reply(tool, "msg", "Error: not found", order_id), new_date))
     ELSE IF order.order_type # scene
       THEN Answer(WithArgs(Reply(tool, "msg", "is not an order of this type", order_id), new_date))
     ELSE IF order.user_id # user_id
       THEN Answer(WithArgs(Reply(tool, "msg", "does not belong to user", order_id), new_date))
     ELSE IF ~ModifiableStatus(order.status)
       THEN Answer(WithArgs(Reply(tool, "msg", "Only paid orders can be modified", order_id), new_date))
     ELSE IF Len(order.products) # 1
       THEN Answer(WithArgs(Reply(tool, "msg", "Only single ticket order modification", order_id), new_date))
     ELSE IF store_id \notin StoresOf(scene)
       THEN Answer(WithArgs(Reply(tool, "msg", "Error: not found", order_id), new_date))
     ELSE IF n = 0
       THEN Answer(WithArgs(Reply(tool, "msg", "New date does not have seats", order_id), new_date))
     ELSE IF Insufficient(quantity[<<store_id, n>>], qty)
       THEN Answer(WithArgs(Reply(tool, "msg", "Insufficient inventory", order_id), new_date))
     ELSE
       /\ quantity' = [credited EXCEPT ![<<store_id, n>>] = @ - qty]
       /\ registry' = DictPut(registry, new_product.product_id, item)
       /\ orders' = [orders EXCEPT
                       ![order_id].status = IF NeedsPayment(diff) THEN "unpaid" ELSE @,
                       ![order_id].products = <<item>>,
                       ![order_id].total_price = new_total,
                       ![order_id].update_time = get_now]
       /\ ret' = [Reply(tool, "ok",
                        IF diff > 0 THEN "Modification successful, need to pay additional amount"
                        ELSE "Modification successful, price difference refunded", order_id)
                    EXCEPT !.diff = diff, !.args = new_date]
       /\ UNCHANGED <<books, reservations>>

OtaNext ==
  \/ /\ kit = "hotel"
     /\ \E c \in CreateCalls("hotel", {1}) : create_hotel_order(c.store, c.pid, c.user)
  \/ /\ kit \in TicketScenes
     /\ \E c \in CreateCalls(kit, 1..MaxQty) :
          create_ticket_order(kit, c.store, c.pid, c.user, c.date, c.qty)
  \/ /\ kit \in OtaScenes
     /\ \E id \in OrderIdArgs : pay_ota_order(kit, id)
  \/ /\ kit \in OtaScenes
     /\ \E id \in OrderIdArgs, u \in Users : cancel_ota_order(kit, id, u)
  \/ /\ kit \in ModifyScenes
     /\ \E id \in OrderIdArgs, u \in Users, d \in DateArgs :
          modify_ota_order(kit, id, u, d)

(* ----------------------------- delivery ------------------------------- *)

\* delivery/tools.py:117-133: the lookup goes through the product registry
\* and raises ValueError when the id is unknown or of another class
HasStoreProduct(product_id) ==
  product_id \in DOMAIN registry /\ registry[product_id].cls = "StoreProduct"

\* delivery/tools.py:59-74: ValueError when the order is missing or not a
\* delivery order
HasDeliveryOrder(order_id) ==
  order_id \in DOMAIN orders /\ orders[order_id].order_type = "delivery"

\* a dispatch time that is ill-formed, one in the past, one in the future
BadTime == NoNum
PastTime == 0
DispatchArgs == {BadTime, PastTime, MaxWall}
check_time_format(t) == t # BadTime

\* the i-th ordered product of create_delivery_order, delivery/tools.py:267-278
OrderedStoreProduct(product_ids, product_cnts, i) ==
  LET product == registry[product_ids[i]] IN
  Item("StoreProduct", product.product_id, "", "", product.price, product_cnts[i])

\* the ordered products overwrite the registry entries of their ids
RECURSIVE RegisterAll(_, _)
RegisterAll(reg, items) ==
  IF items = <<>> THEN reg
  ELSE RegisterAll(DictPut(reg, Head(items).product_id, Head(items)), Tail(items))

\* delivery/tools.py:77-87
OverwriteDeliveryOrder(id, order) == DictPut(orders, id, order)
_add_delivery_order(id, order) ==
  IF id \in DOMAIN orders THEN orders ELSE DictPut(orders, id, order)

\* delivery/tools.py:227-305
create_delivery_order(user_id, store_id, product_ids, product_cnts, address, dispatch_time) ==
  LET tool == "create_delivery_order"
      args == [user |-> user_id, store |-> store_id, pids |-> product_ids,
               cnts |-> product_cnts, address |-> address, dispatch |-> dispatch_time]
      n == IF Len(product_ids) < Len(product_cnts) THEN Len(product_ids)
           ELSE Len(product_cnts)
      ordered_products ==
        [i \in 1..n |-> OrderedStoreProduct(product_ids, product_cnts, i)]
      total_amount ==
        SumSeq([i \in 1..n |-> ordered_products[i].price * product_cnts[i]])
      id == assign_order_id("delivery", user_id, <<>>)
      order == NewOrder("delivery", user_id, store_id, total_amount, ordered_products)
  IN
  /\ Call
  /\ IF ~_check_user(user_id)
       THEN Answer(WithArgs(AssertMsg(tool, "User ID does not match", UnknownId), args))
     ELSE IF store_id \notin StoresOf("delivery")
       THEN Answer(WithArgs(AssertMsg(tool, "Store not found", UnknownId), args))
     ELSE IF \E i \in DOMAIN product_ids : ~HasStoreProduct(product_ids[i])
       THEN Answer(WithArgs(Uncaught(tool, UnknownId), args))
     ELSE IF address = ""
       THEN Answer(WithArgs(AssertMsg(tool, "Location is empty", UnknownId), args))
     ELSE IF ~(/\ Len(product_ids) = Len(product_cnts)
               /\ \A i \in DOMAIN product_cnts : product_cnts[i] > 0)
       THEN Answer(WithArgs(AssertMsg(tool, "product_cnts list is invalid", UnknownId), args))
     ELSE IF ~check_time_format(dispatch_time)
       THEN Answer(WithArgs(AssertMsg(tool, "dispatch_time time format is invalid", UnknownId), args))
     ELSE IF ~(dispatch_time >= get_now)
       THEN Answer(WithArgs(AssertMsg(tool, "dispatch_time must be in the future", UnknownId), args))
     ELSE
       /\ registry' = RegisterAll(registry, ordered_products)
       /\ orders' = _add_delivery_order(id, order)
       /\ ret' = WithArgs(IF id \in DOMAIN orders
                            THEN Reply(tool, "msg", "Order already exists", id)
                            ELSE Reply(tool, "ok", "created", id), args)
       /\ UNCHANGED <<books, reservations, quantity>>

\* delivery/tools.py:307-324
pay_delivery_order(order_id) ==
  LET tool == "pay_delivery_order" IN
  /\ Call
  /\ IF ~HasDeliveryOrder(order_id)
       THEN Answer(Reply(tool, "msg", "Error: not found or not a delivery order", order_id))
     ELSE IF Payable(orders[order_id].status)
       THEN /\ orders' = [orders EXCEPT ![order_id].status = "paid",
                                        ![order_id].update_time = get_now]
            /\ ret' = Reply(tool, "ok", "Payment successful", order_id)
            /\ UNCHANGED <<books, reservations, quantity, registry>>
     ELSE Answer(Reply(tool, "msg", "is not in unpaid status", order_id))

\* delivery/tools.py:335-352
cancel_delivery_order(order_id) ==
  LET tool == "cancel_delivery_order" IN
  /\ Call
  /\ IF ~HasDeliveryOrder(order_id)
       THEN Answer(Reply(tool, "msg", "Error: not found or not a delivery order", order_id))
     ELSE IF AlreadyCancelled(orders[order_id].status)
       THEN Answer(Reply(tool, "msg", "is already cancelled", order_id))
     ELSE
       /\ orders' = [orders EXCEPT ![order_id].status = "cancelled",
                                   ![order_id].update_time = get_now]
       /\ ret' = Reply(tool, "ok", "has been cancelled", order_id)
       /\ UNCHANGED <<books, reservations, quantity, registry>>

\* the statuses in which modify_delivery_order refuses to act
DeliveryModifyNeverRefused(status) == FALSE
DeliveryModifyRefused(status) == status \in {"cancelled"}

NoteArgs == {"", "no onions"}

\* delivery/tools.py:354-373
modify_delivery_order(order_id, note) ==
  LET tool == "modify_delivery_order" IN
  /\ Call
  /\ IF ~HasDeliveryOrder(order_id)
       THEN Answer(Reply(tool, "msg", "Error: not found or not a delivery order", order_id))
     ELSE IF DeliveryModifyRefused(orders[order_id].status)
       THEN Answer(Reply(tool, "msg", "Cannot modify order as it is already cancelled",
                         order_id))
     ELSE
       /\ orders' = [orders EXCEPT ![order_id].note = note,
                                   ![order_id].update_time = get_now]
       /\ ret' = Reply(tool, "ok", "has been modified", order_id)
       /\ UNCHANGED <<books, reservations, quantity, registry>>

\* the argument lists create_delivery_order is called with
DeliveryCalls ==
  LET call(u_, s_, p_, c_, a_, t_) ==
        [user |-> u_, store |-> s_, pids |-> p_, cnts |-> c_, address |-> a_,
         dispatch |-> t_]
  IN {call(DbUser, "S1", <<"D1">>, <<q>>, "home", MaxWall) : q \in 1..MaxQty}
       \cup {call(DbUser, "S1", <<"D1", "D2">>, <<q, 1>>, "home", MaxWall) : q \in 1..MaxQty}
       \cup {call("V", "S1", <<"D1">>, <<1>>, "home", MaxWall),
             call(DbUser, WrongStore("delivery"), <<"D1">>, <<1>>, "home", MaxWall),
             call(DbUser, "S1", <<NoProduct>>, <<1>>, "home", MaxWall),
             call(DbUser, "S1", <<"I1">>, <<1>>, "home", MaxWall),
             call(DbUser, "S1", <<"D9">>, <<1>>, "home", MaxWall),
             call(DbUser, "S1", <<"D1">>, <<1>>, "", MaxWall),
             call(DbUser, "S1", <<"D1">>, <<1, 1>>, "home", MaxWall),
             call(DbUser, "S1", <<"D1">>, <<0>>, "home", MaxWall),
             call(DbUser, "S1", <<"D1">>, <<1>>, "home", BadTime),
             call(DbUser, "S1", <<"D1">>, <<1>>, "home", PastTime)}

DeliveryNext ==
  /\ kit = "delivery"
  /\ \/ \E c \in DeliveryCalls :
          create_delivery_order(c.user, c.store, c.pids, c.cnts, c.address, c.dispatch)
     \/ \E id \in OrderIdArgs : pay_delivery_order(id)
     \/ \E id \in OrderIdArgs : cancel_delivery_order(id)
     \/ \E id \in OrderIdArgs, note \in NoteArgs : modify_delivery_order(id, note)

(* ------------------------------ instore ------------------------------- *)

\* instore/tools.py:57-64
HasShopProduct(product_id) ==
  product_id \in DOMAIN registry /\ registry[product_id].cls = "ShopProduct"

\* a lookup that takes an order of any type for an instore order
HasAnyOrder(order_id) == order_id \in DOMAIN orders

\* instore/tools.py:84-103
HasInstoreOrder(order_id) ==
  order_id \in DOMAIN orders /\ orders[order_id].order_type = "instore"

\* instore/tools.py:239-279.  The product is the registered object itself:
\* its quantity is overwritten and the order's line item is that object.
\* (ShopProduct objects are only built when the database is loaded, so the
\* registered object is always the catalog's.)
create_instore_product_order(user_id, shop_id, product_id, qty) ==
  LET tool == "create_instore_product_order"
      product == registry[product_id]
      id == assign_order_id("instore", user_id, <<>>)
      order == NewOrder("instore", user_id, shop_id, qty * product.price,
                        <<AliasItem(product.obj)>>)
  IN
  /\ Call
  /\ IF ~_check_user(user_id)
       THEN Answer(AssertMsg(tool, "User ID does not match", UnknownId))
     ELSE IF ~(qty > 0)
       THEN Answer(AssertMsg(tool, "Quantity must be greater than 0", UnknownId))
     ELSE IF shop_id \notin StoresOf("instore")
       THEN Answer(Reply(tool, "msg", "Error: shop does not exist", UnknownId))
     ELSE IF product_id \notin ProductIds(shop_id)
       THEN Answer(Reply(tool, "msg", "Product does not exist in shop", UnknownId))
     ELSE IF ~HasShopProduct(product_id)
       THEN Answer(Reply(tool, "msg", "Error: product does not exist", UnknownId))
     ELSE
       /\ quantity' = [quantity EXCEPT ![product.obj] = qty]
       /\ orders' = IF id \in DOMAIN orders THEN orders ELSE DictPut(orders, id, order)
       /\ ret' = IF id \in DOMAIN orders
                   THEN Reply(tool, "msg", "Failed to create order: Order already exists", id)
                   ELSE Reply(tool, "ok", "created", id)
       /\ UNCHANGED <<books, reservations, registry>>

\* instore/tools.py:282-300
pay_instore_order(order_id) ==
  LET tool == "pay_instore_order" IN
  /\ Call
  /\ IF ~HasInstoreOrder(order_id)
       THEN Answer(Reply(tool, "msg", "Error: not found or not an instore order", order_id))
     ELSE IF Payable(orders[order_id].status)
       THEN /\ orders' = [orders EXCEPT ![order_id].status = "paid",
                                        ![order_id].update_time = get_now]
            /\ ret' = Reply(tool, "ok", "Payment successful", order_id)
            /\ UNCHANGED <<books, reservations, quantity, registry>>
     ELSE Answer(Reply(tool, "msg", "is not in unpaid status", order_id))

\* instore/tools.py:302-320
instore_cancel_order(order_id) ==
  LET tool == "instore_cancel_order" IN
  /\ Call
  /\ IF ~HasInstoreOrder(order_id)
       THEN Answer(Reply(tool, "msg", "Error: not found or not an instore order", order_id))
     ELSE IF AlreadyCancelled(orders[order_id].status)
       THEN Answer(Reply(tool, "msg", "is already cancelled", order_id))
     ELSE
       /\ orders' = [orders EXCEPT ![order_id].status = "cancelled",
                                   ![order_id].update_time = get_now]
       /\ ret' = Reply(tool, "ok", "is cancelled", order_id)
       /\ UNCHANGED <<books, reservations, quantity, registry>>

\* instore/tools.py:322-358
instore_book(user_id, shop_id, time, customer_count) ==
  LET tool == "instore_book"
      book_price == Shops[shop_id].book_price
      id == assign_order_id("instore_book", user_id, <<>>)
      book_info == [shop_id |-> shop_id, book_time |-> time,
                    customer_count |-> customer_count, book_price |-> book_price,
                    customer_id |-> user_id,
                    status |-> IF book_price > 0 THEN "unpaid" ELSE "paid",
                    update_time |-> get_now]
  IN
  /\ Call
  /\ IF ~_check_user(user_id)
       THEN Answer(AssertMsg(tool, "User ID does not match", UnknownId))
     ELSE IF ~(customer_count > 0)
       THEN Answer(AssertMsg(tool, "Number of customers must be greater than 0", UnknownId))
     ELSE IF ~check_time_format(time)
       THEN Answer(AssertMsg(tool, "Table booking time format is incorrect", UnknownId))
     ELSE IF shop_id \notin StoresOf("instore")
       THEN Answer(Reply(tool, "msg", "Error: shop does not exist", UnknownId))
     ELSE IF ~Shops[shop_id].enable_book
       THEN Answer(Reply(tool, "msg", "Shop does not support table booking", UnknownId))
     ELSE
       /\ books' = IF id \in DOMAIN books THEN books ELSE DictPut(books, id, book_info)
       /\ ret' = IF id \in DOMAIN books
                   THEN Reply(tool, "msg", "Failed to create booking: BookInfo already exists", id)
                   ELSE Reply(tool, "ok", "created", id)
       /\ UNCHANGED <<orders, reservations, quantity, registry>>

\* instore/tools.py:360-378
pay_instore_book(book_id) ==
  LET tool == "pay_instore_book" IN
  /\ Call
  /\ IF book_id \notin DOMAIN books
       THEN Answer(Reply(tool, "msg", "Error: BookInfo not found", book_id))
     ELSE IF Payable(books[book_id].status)
       THEN /\ books' = [books EXCEPT ![book_id].status = "paid",
                                      ![book_id].update_time = get_now]
            /\ ret' = Reply(tool, "ok", "Payment successful", book_id)
            /\ UNCHANGED <<orders, reservations, quantity, registry>>
     ELSE Answer(Reply(tool, "msg", "is not in unpaid status", book_id))

\* instore/tools.py:380-399
instore_cancel_book(book_id) ==
  LET tool == "instore_cancel_book" IN
  /\ Call
  /\ IF book_id \notin DOMAIN books
       THEN Answer(Reply(tool, "msg", "Error: BookInfo not found", book_id))
     ELSE IF AlreadyCancelled(books[book_id].status)
       THEN Answer(Reply(tool, "msg", "is already cancelled", book_id))
     ELSE
       /\ books' = [books EXCEPT ![book_id].status = "cancelled",
                                 ![book_id].update_time = get_now]
       /\ ret' = Reply(tool, "ok", "is cancelled", book_id)
       /\ UNCHANGED <<orders, reservations, quantity, registry>>

\* instore/tools.py:401-430
instore_reservation(user_id, shop_id, time, customer_count) ==
  LET tool == "instore_reservation"
      id == assign_order_id("instore_reservation", user_id, <<>>)
      reservation == [shop_id |-> shop_id, reservation_time |-> time,
                      customer_id |-> user_id, customer_count |-> customer_count,
                      status |-> "unconsumed", update_time |-> get_now]
  IN
  /\ Call
  /\ IF ~_check_user(user_id)
       THEN Answer(AssertMsg(tool, "User ID does not match", UnknownId))
     ELSE IF ~(customer_count > 0)
       THEN Answer(AssertMsg(tool, "Number of customers must be greater than 0", UnknownId))
     ELSE IF ~check_time_format(time)
       THEN Answer(AssertMsg(tool, "Reservation time format is incorrect", UnknownId))
     ELSE IF shop_id \notin StoresOf("instore")
       THEN Answer(Reply(tool, "msg", "Error: shop does not exist", UnknownId))
     ELSE
       /\ reservations' = IF id \in DOMAIN reservations THEN reservations
                          ELSE DictPut(reservations, id, reservation)
       /\ ret' = IF id \in DOMAIN reservations
                   THEN Reply(tool, "msg",
                              "Failed to create reservation: ReservationInfo already exists", id)
                   ELSE Reply(tool, "ok", "created", id)
       /\ UNCHANGED <<orders, books, quantity, registry>>

\* instore/tools.py:447: the statuses in which a reservation is not modified
OnlyCancelledIsFinal(status) == status \in {"cancelled"}
ReservationIsFinal(status) == status \in {"consumed", "cancelled"}

\* instore/tools.py:432-456
instore_modify_reservation(reservation_id, time, customer_count) ==
  LET tool == "instore_modify_reservation" IN
  /\ Call
  /\ IF ~(customer_count >= 0)
       THEN Answer(AssertMsg(tool, "Number of customers must be at least 0", reservation_id))
     ELSE IF ~check_time_format(time)
       THEN Answer(AssertMsg(tool, "Reservation time format is incorrect", reservation_id))
     ELSE IF reservation_id \notin DOMAIN reservations
       THEN Answer(Reply(tool, "msg", "Error: ReservationInfo not found", reservation_id))
     ELSE IF ReservationIsFinal(reservations[reservation_id].status)
       THEN Answer(Reply(tool, "msg", "is already consumed or cancelled", reservation_id))
     ELSE
       /\ reservations' = [reservations EXCEPT
                             ![reservation_id].reservation_time = time,
                             ![reservation_id].customer_count = customer_count,
                             ![reservation_id].update_time = get_now]
       /\ ret' = Reply(tool, "ok", "modified", reservation_id)
       /\ UNCHANGED <<orders, books, quantity, registry>>

\* instore/tools.py:458-476
instore_cancel_reservation(reservation_id) ==
  LET tool == "instore_cancel_reservation" IN
  /\ Call
  /\ IF reservation_id \notin DOMAIN reservations
       THEN Answer(Reply(tool, "msg", "Error: ReservationInfo not found", reservation_id))
     ELSE IF AlreadyCancelled(reservations[reservation_id].status)
       THEN Answer(Reply(tool, "msg", "is already cancelled", reservation_id))
     ELSE
       /\ reservations' = [reservations EXCEPT
                             ![reservation_id].status = "cancelled",
                             ![reservation_id].update_time = get_now]
       /\ ret' = Reply(tool, "ok", "is cancelled", reservation_id)
       /\ UNCHANGED <<orders, books, quantity, registry>>

\* the argument lists create_instore_product_order is called with
InstoreCalls ==
  LET call(u_, s_, p_, q_) == [user |-> u_, shop |-> s_, pid |-> p_, qty |-> q_]
  IN {call(DbUser, "P1", "I1", q) : q \in 1..MaxQty}
       \cup {call(DbUser, "P2", "I2", 1),
             call("V", "P1", "I1", 1),
             call(DbUser, "P1", "I1", 0),
             call(DbUser, WrongStore("instore"), "I1", 1),
             call(DbUser, "P1", "I2", 1)}

\* the argument lists instore_book and instore_reservation are called with
TableCalls ==
  LET call(u_, s_, t_, c_) == [user |-> u_, shop |-> s_, time |-> t_, count |-> c_]
  IN {call(DbUser, sh, MaxWall, 1) : sh \in StoresOf("instore")}
       \cup {call("V", "P1", MaxWall, 1),
             call(DbUser, "P1", MaxWall, 0),
             call(DbUser, "P1", BadTime, 1),
             call(DbUser, WrongStore("instore"), MaxWall, 1)}

InstoreNext ==
  \/ /\ kit = "instore"
     /\ \/ \E c \in InstoreCalls :
             create_instore_product_order(c.user, c.shop, c.pid, c.qty)
        \/ \E id \in OrderIdArgs : pay_instore_order(id)
        \/ \E id \in OrderIdArgs : instore_cancel_order(id)
  \/ /\ kit = "instore_book"
     /\ \/ \E c \in TableCalls : instore_book(c.user, c.shop, c.time, c.count)
        \/ \E id \in OrderIdArgs : pay_instore_book(id)
        \/ \E id \in OrderIdArgs : instore_cancel_book(id)
  \/ /\ kit = "instore_reservation"
     /\ \/ \E c \in TableCalls : instore_reservation(c.user, c.shop, c.time, c.count)
        \/ \E id \in OrderIdArgs, t \in {BadTime, MaxWall}, c \in {-1, 0, 3} :
             instore_modify_reservation(id, t, c)
        \/ \E id \in OrderIdArgs : instore_cancel_reservation(id)

\* the scenario names a caller may pass: the supported ones and one that is not
ScenarioArgs == DOMAIN ScenarioConfigs \cup {"bus"}

\* keyword arguments a caller may pass: none, one of the two a hotel order
\* needs, both, and both with one more
KeywordArgs ==
  {<<>>,
   [hotel_id |-> "H1"],
   [hotel_id |-> "H1", product_id |-> "R1"],
   [hotel_id |-> "H1", product_id |-> "R2"],
   [hotel_id |-> "H1", product_id |-> "R1", room_type |-> "twin"]}

\* db.py:49-125: a direct call DB.assign_order_id(scenario, user_id, **kw)
AssignId(scenario, user_id, kw) ==
  LET r == AssignOrderId(scenario, user_id, kw, wall)
  IN /\ Call
     /\ Answer(WithArgs(Reply("assign_order_id", r.kind, r.msg, r.id),
                        [scenario |-> scenario, user_id |-> user_id, kw |-> kw]))

(* ---------------------- READ and GENERIC tools -------------------------- *)

\* the tools whose decorator says ToolType.WRITE
WriteTools ==
  {"create_hotel_order", "create_delivery_order", "create_instore_product_order",
   "modify_delivery_order", "instore_book", "instore_reservation",
   "pay_instore_book", "instore_cancel_book",
   "instore_modify_reservation", "instore_cancel_reservation",
   "pay_delivery_order", "pay_instore_order",
   "cancel_delivery_order", "instore_cancel_order"}
    \cup {"create_" \o sc \o "_order" : sc \in TicketScenes}
    \cup {"pay_" \o sc \o "_order" : sc \in OtaScenes}
    \cup {"cancel_" \o sc \o "_order" : sc \in OtaScenes}
    \cup {"modify_" \o sc \o "_order" : sc \in ModifyScenes}

\* the tools of the base toolkit whose decorator says ToolType.GENERIC
GenericTools == {"weather", "delivery_distance_to_time"}

\* a classification that takes every tool for a reading one
EveryToolReads(tool_name) == "read"

\* toolkit.py:226-229 with the decorators of the tools: the type a tool was
\* registered with; READ is the decorator's default
tool_type(tool_name) ==
  IF tool_name \in WriteTools THEN "write"
  ELSE IF tool_name \in GenericTools THEN "generic"
  ELSE "read"

\* an optional argument that is left out
NoId == [id_prefix |-> "None", hash_input |-> "None", timestamp |-> 0, hex_digits |-> 0]
NoDate == ""
NoStatus == ""

\* ota/tools.py:815-869: get_hotel_order_detail and its three siblings
get_ota_order_detail(scene, order_id) ==
  LET tool == "get_" \o scene \o "_order_detail" IN
  /\ Call
  /\ IF order_id \notin DOMAIN orders
       THEN Answer(Reply(tool, "msg", "Error: not found", order_id))
     ELSE IF orders[order_id].order_type # scene
       THEN Answer(Reply(tool, "msg", "is not an order of this type", order_id))
     ELSE Answer(Reply(tool, "ok", "repr(order)", order_id))

\* ota/tools.py:661-679: the orders search_<scene>_order selects
SelectedOrders(scene, user_id, date, status) ==
  {id \in DOMAIN orders :
     /\ orders[id].order_type = scene
     /\ orders[id].user_id = user_id
     /\ status = NoStatus \/ orders[id].status = status
     /\ date = NoDate \/ \E k \in DOMAIN orders[id].products :
                           orders[id].products[k].date = date}

\* ota/tools.py:651-813: search_hotel_order and its three siblings
search_ota_order(scene, user_id, date, status) ==
  LET tool == "search_" \o scene \o "_order" IN
  /\ Call
  /\ IF ~_check_user(user_id)
       THEN Answer(AssertMsg(tool, "User ID does not match", NoId))
     ELSE IF date # NoDate /\ ~check_date_format(date)
       THEN Answer(AssertMsg(tool, "Date format is incorrect", NoId))
     ELSE IF SelectedOrders(scene, user_id, date, status) = {}
       THEN Answer(Reply(tool, "msg", "No orders found", NoId))
     ELSE Answer(Reply(tool, "ok", "str(order) of each", NoId))

\* delivery/tools.py:326-333
get_delivery_order_status(order_id) ==
  LET tool == "get_delivery_order_status" IN
  /\ Call
  /\ IF ~HasDeliveryOrder(order_id)
       THEN Answer(Reply(tool, "msg", "Error: not found or not a delivery order", order_id))
     ELSE Answer(Reply(tool, "ok", "Order status", order_id))

\* delivery/tools.py:390-397
get_delivery_order_detail(order_id) ==
  LET tool == "get_delivery_order_detail" IN
  /\ Call
  /\ IF ~HasDeliveryOrder(order_id)
       THEN Answer(Reply(tool, "msg", "Error: not found or not a delivery order", order_id))
     ELSE Answer(Reply(tool, "ok", "repr(order)", order_id))

\* delivery/tools.py:375-388
search_delivery_orders(user_id, status) ==
  LET tool == "search_delivery_orders" IN
  /\ Call
  /\ IF ~_check_user(user_id)
       THEN Answer(AssertMsg(tool, "User ID does not match", NoId))
     ELSE IF {id \in DOMAIN orders : /\ orders[id].order_type = "delivery"
                                      /\ orders[id].status = status
                                      /\ orders[id].user_id = user_id} = {}
       THEN Answer(Reply(tool, "msg", "No delivery orders available", NoId))
     ELSE Answer(Reply(tool, "ok", "str(order) of each", NoId))

\* delivery/tools.py:150-157
get_delivery_product_info(product_id) ==
  LET tool == "get_delivery_product_info" IN
  /\ Call
  /\ IF ~HasStoreProduct(product_id)
       THEN Answer(Reply(tool, "msg", "Error: not found", NoId))
     ELSE Answer(Reply(tool, "ok", "repr(product)", NoId))

\* delivery/tools.py:135-139
delivery_distance_to_time(distance) ==
  LET tool == "delivery_distance_to_time" IN
  /\ Call
  /\ IF distance = NoNum
       THEN Answer(AssertMsg(tool, "distance value type should be float or int", NoId))
     ELSE Answer(Reply(tool, "ok", "minutes", NoId))

\* instore/tools.py:479-494
get_instore_orders(user_id) ==
  LET tool == "get_instore_orders" IN
  /\ Call
  /\ IF ~_check_user(user_id)
       THEN Answer(AssertMsg(tool, "User ID does not match", NoId))
     ELSE IF {id \in DOMAIN orders : HasInstoreOrder(id) /\ orders[id].user_id = user_id} = {}
       THEN Answer(Reply(tool, "msg", "has no order information", NoId))
     ELSE Answer(Reply(tool, "ok", "repr(order) of each", NoId))

\* instore/tools.py:511-524 (get_instore_books), 496-509 (get_instore_reservations)
get_instore_table(tool, table, user_id) ==
  /\ Call
  /\ IF ~_check_user(user_id)
       THEN Answer(AssertMsg(tool, "User ID does not match", NoId))
     ELSE IF {id \in DOMAIN table : table[id].customer_id = user_id} = {}
       THEN Answer(Reply(tool, "msg", "has no information", NoId))
     ELSE Answer(Reply(tool, "ok", "repr of each", NoId))

\* instore/tools.py:526-545 (search_instore_book), 547-565
\* (search_instore_reservation): the ValueError of the lookup is not caught
search_instore_table(tool, table, user_id, id) ==
  /\ Call
  /\ IF ~_check_user(user_id)
       THEN Answer(AssertMsg(tool, "User ID does not match", id))
     ELSE IF id = NoId
       THEN IF {i \in DOMAIN table : table[i].customer_id = user_id} = {}
              THEN Answer(Reply(tool, "msg", "has no information", id))
              ELSE Answer(Reply(tool, "ok", "repr of each", id))
     ELSE IF id \notin DOMAIN table
       THEN Answer(Uncaught(tool, id))
     ELSE IF table[id].customer_id # user_id
       THEN Answer(Reply(tool, "msg", "is not belong to user", id))
     ELSE Answer(Reply(tool, "ok", "repr", id))

\* toolkit.py:435-440
get_user_all_orders ==
  LET tool == "get_user_all_orders" IN
  /\ Call
  /\ Answer(Reply(tool, "ok", "repr(order) of each", NoId))

\* toolkit.py:281-310: the city is matched against the weather table; a
\* match below the threshold raises a ValueError the tool does not catch
Cities == {"known city", "unknown city"}
weather(address, date_start, date_end) ==
  LET tool == "weather" IN
  /\ Call
  /\ IF ~check_date_format(date_start) \/ ~check_date_format(date_end)
       THEN Answer(AssertMsg(tool, "Invalid date format", NoId))
     ELSE IF address = "unknown city"
       THEN Answer(Uncaught(tool, NoId))
     ELSE Answer(Reply(tool, "ok", "weather", NoId))

ReadNext ==
  \/ /\ kit \in OtaScenes
     /\ \/ \E id \in OrderIdArgs : get_ota_order_detail(kit, id)
        \/ \E u \in Users, d \in {NoDate, "d1", "bad"}, st \in {NoStatus, "paid"} :
             search_ota_order(kit, u, d, st)
  \/ /\ kit = "delivery"
     /\ \/ \E id \in OrderIdArgs : get_delivery_order_status(id)
        \/ \E id \in OrderIdArgs : get_delivery_order_detail(id)
        \/ \E u \in Users, st \in {"unpaid", "paid"} : search_delivery_orders(u, st)
        \/ \E pid \in {"D1", "I1", NoProduct} : get_delivery_product_info(pid)
        \/ \E d \in {NoNum, 1} : delivery_distance_to_time(d)
  \/ /\ kit = "instore"
     /\ \E u \in Users : get_instore_orders(u)
  \/ /\ kit = "instore_book"
     /\ \/ \E u \in Users : get_instore_table("get_instore_books", books, u)
        \/ \E u \in Users, id \in OrderIdArgs \cup {NoId} :
             search_instore_table("search_instore_book", books, u, id)
  \/ /\ kit = "instore_reservation"
     /\ \/ \E u \in Users : get_instore_table("get_instore_reservations", reservations, u)
        \/ \E u \in Users, id \in OrderIdArgs \cup {NoId} :
             search_instore_table("search_instore_reservation", reservations, u, id)
  \/ /\ kit # "db"
     /\ \/ get_user_all_orders
        \/ \E a \in Cities, d \in {"d1", "bad"} : weather(a, d, "d2")

DbNext ==
  /\ kit = "db"
  /\ \E scenario \in ScenarioArgs, user_id \in Users, kw \in KeywordArgs :
       AssignId(scenario, user_id, kw)

ToolsNext == Tick \/ OtaNext \/ DeliveryNext \/ InstoreNext \/ DbNext \/ ReadNext

SpecTools == ToolsInit /\ [][ToolsNext]_vars

SpecEval == EvalInit /\ [][EvalNext]_vars

(* ------------------- thread_safe_base.py: ThreadSafeBase ------------------ *)

\* method calls followed in one behaviour, and thread identifiers in use
MaxOps == 3
MaxIdent == 2

\* the threads of the run, and the identifiers the interpreter hands out (an
\* identifier is free again once its thread has ended)
ThreadNames == {"t1", "t2"}
Idents == 1..MaxIdent

Global == "_global_instances"
Poly == "_polymorphic_instances"
Attrs == {Global, Poly}

\* the key under which the instances of this run register
InstanceKey == "k"

\* a class attribute pair (the dict and its lock) that is not set yet
NoAttribute == [has |-> FALSE, lock |-> FALSE, d |-> <<>>]

Idle == [method |-> "idle", at |-> 0]

Step(do, attr) == [do |-> do, attr |-> attr]

\* thread_safe_base.py:32-34 (and 51-53, 69-75, 90-96, 173-175): the test for
\* the attribute and the two assignments that follow it when it is missing
Ensure(attr) == <<Step("hasattr", attr), Step("new_dict", attr), Step("new_lock", attr)>>

\* the steps of each method, in program order
Methods ==
  [get_all |-> Ensure(Global) \o <<Step("get", Global)>>,
   get_all_polymorphic |-> Ensure(Poly) \o <<Step("get", Poly)>>,
   register_instance |-> Ensure(Global) \o <<Step("get", Global), Step("setitem", Global)>>,
   register_polymorphic_instance |-> Ensure(Poly) \o <<Step("put", Poly)>>,
   clear_thread_data |-> Ensure(Global) \o Ensure(Poly)
                           \o <<Step("reset", Global), Step("reset", Poly)>>,
   clear_all |-> Ensure(Global) \o Ensure(Poly)
                   \o <<Step("clear", Global), Step("clear", Poly)>>,
   cleanup_thread |-> <<Step("return_unless", Global), Step("enumerate", Global),
                        Step("reap", Global), Step("skip_unless", Poly),
                        Step("reap", Poly)>>]

\* the step thread t is at
Cur(t) == Methods[tpc[t].method][tpc[t].at]

At(t, do) == threads[t] = "live" /\ tpc[t] # Idle /\ Cur(t).do = do

\* thread t moves n steps on; past the last step the method has returned
Goto(t, n) ==
  tpc' = [tpc EXCEPT ![t] = IF tpc[t].at + n > Len(Methods[tpc[t].method])
                              THEN Idle
                              ELSE [tpc[t] EXCEPT !.at = tpc[t].at + n]]

LiveIdents == {ident[u] : u \in {x \in ThreadNames : threads[x] = "live"}}

ThreadsInit ==
  /\ EvalParked
  /\ ToolsParked
  /\ AgentParked
  /\ FunctionsParked
  /\ attrs = [a \in Attrs |-> NoAttribute]
  /\ threads = [t \in ThreadNames |-> "new"]
  /\ ident = [t \in ThreadNames |-> 0]
  /\ tpc = [t \in ThreadNames |-> Idle]
  /\ current_threads = [t \in ThreadNames |-> {}]
  /\ instances = [t \in ThreadNames |-> FALSE]
  /\ returned = [t \in ThreadNames |-> <<>>]
  /\ nops = 0

\* a thread starts and is given an identifier no live thread has
Start(t) ==
  /\ threads[t] = "new"
  /\ \E i \in Idents \ LiveIdents : ident' = [ident EXCEPT ![t] = i]
  /\ threads' = [threads EXCEPT ![t] = "live"]
  /\ UNCHANGED <<attrs, tpc, current_threads, instances, returned, nops>>
  /\ UNCHANGED <<evars, tvars, avars, fvars>>

\* a thread that is in no method ends
Exit(t) ==
  /\ threads[t] = "live"
  /\ tpc[t] = Idle
  /\ threads' = [threads EXCEPT ![t] = "dead"]
  /\ UNCHANGED <<attrs, ident, tpc, current_threads, instances, returned, nops>>
  /\ UNCHANGED <<evars, tvars, avars, fvars>>

\* a live thread calls a method
Begin(t, method) ==
  /\ threads[t] = "live"
  /\ tpc[t] = Idle
  /\ nops < MaxOps
  /\ nops' = nops + 1
  /\ tpc' = [tpc EXCEPT ![t] = [method |-> method, at |-> 1]]
  /\ UNCHANGED <<attrs, threads, ident, current_threads, instances, returned>>
  /\ UNCHANGED <<evars, tvars, avars, fvars>>

\* `if not hasattr(cls, attr)`: the two assignments are skipped when it is set
HasAttr(t) ==
  /\ At(t, "hasattr")
  /\ Goto(t, IF attrs[Cur(t).attr].has THEN 3 ELSE 1)
  /\ UNCHANGED <<attrs, threads, ident, current_threads, instances, returned, nops>>
  /\ UNCHANGED <<evars, tvars, avars, fvars>>

\* `cls._global_instances = {}` (or the polymorphic one): a new, empty dict
\* takes the place of whatever the attribute held; a dict a thread got from the
\* old one is no longer the class's
NewDict(t) ==
  LET a == Cur(t).attr IN
  /\ At(t, "new_dict")
  /\ attrs' = [attrs EXCEPT ![a] = [has |-> TRUE, lock |-> attrs[a].lock, d |-> <<>>]]
  /\ instances' = IF a = Global THEN [u \in ThreadNames |-> FALSE] ELSE instances
  /\ Goto(t, 1)
  /\ UNCHANGED <<threads, ident, current_threads, returned, nops>>
  /\ UNCHANGED <<evars, tvars, avars, fvars>>

\* `cls._global_lock = threading.Lock()`
NewLock(t) ==
  /\ At(t, "new_lock")
  /\ attrs' = [attrs EXCEPT ![Cur(t).attr].lock = TRUE]
  /\ Goto(t, 1)
  /\ UNCHANGED <<threads, ident, current_threads, instances, returned, nops>>
  /\ UNCHANGED <<evars, tvars, avars, fvars>>

\* the steps that run under `with cls._global_lock` (or the polymorphic lock)
LockedSteps == {"get", "put", "reset", "clear", "reap"}

\* `with cls._global_lock` when the dict is set and the lock is not yet: the
\* attribute lookup raises AttributeError and the method is left
AttributeError(t) ==
  /\ threads[t] = "live"
  /\ tpc[t] # Idle
  /\ Cur(t).do \in LockedSteps
  /\ ~attrs[Cur(t).attr].lock
  /\ tpc' = [tpc EXCEPT ![t] = Idle]
  /\ UNCHANGED <<attrs, threads, ident, current_threads, instances, returned, nops>>
  /\ UNCHANGED <<evars, tvars, avars, fvars>>

\* the dict d with an empty dict for thread id i when it has none
WithThread(d, i) == IF i \in DOMAIN d THEN d ELSE DictPut(d, i, <<>>)

\* thread_safe_base.py:36-39 and 55-58: under the lock, the thread's dict is
\* made if missing and returned; get_all and get_all_polymorphic hand it to
\* the caller, register_instance keeps it for its next statement
Get(t) ==
  LET a == Cur(t).attr
      d == WithThread(attrs[a].d, ident[t])
  IN
  /\ At(t, "get")
  /\ attrs[a].lock
  /\ attrs' = [attrs EXCEPT ![a].d = d]
  /\ IF tpc[t].method = "register_instance"
       THEN /\ instances' = [instances EXCEPT ![t] = TRUE]
            /\ UNCHANGED returned
       ELSE /\ returned' = [returned EXCEPT ![t] = d[ident[t]]]
            /\ UNCHANGED instances
  /\ Goto(t, 1)
  /\ UNCHANGED <<threads, ident, current_threads, nops>>
  /\ UNCHANGED <<evars, tvars, avars, fvars>>

\* thread_safe_base.py:164: `instances[key] = self`, outside the lock; it
\* reaches the class only if the dict is still the one the class holds
SetItem(t) ==
  /\ At(t, "setitem")
  /\ attrs' = IF instances[t]
                THEN [attrs EXCEPT ![Global].d =
                        DictPut(@, ident[t], DictPut(@[ident[t]], InstanceKey, t))]
                ELSE attrs
  /\ instances' = [instances EXCEPT ![t] = FALSE]
  /\ Goto(t, 1)
  /\ UNCHANGED <<threads, ident, current_threads, returned, nops>>
  /\ UNCHANGED <<evars, tvars, avars, fvars>>

\* thread_safe_base.py:179-182
Put(t) ==
  LET a == Cur(t).attr
      d == WithThread(attrs[a].d, ident[t])
  IN
  /\ At(t, "put")
  /\ attrs[a].lock
  /\ attrs' = [attrs EXCEPT ![a].d = DictPut(d, ident[t], DictPut(d[ident[t]], InstanceKey, t))]
  /\ Goto(t, 1)
  /\ UNCHANGED <<threads, ident, current_threads, instances, returned, nops>>
  /\ UNCHANGED <<evars, tvars, avars, fvars>>

\* thread_safe_base.py:77-81 (clear_thread_data): the thread's entry becomes a
\* new, empty dict
Reset(t) ==
  /\ At(t, "reset")
  /\ attrs[Cur(t).attr].lock
  /\ attrs' = [attrs EXCEPT ![Cur(t).attr].d = DictPut(@, ident[t], <<>>)]
  /\ Goto(t, 1)
  /\ UNCHANGED <<threads, ident, current_threads, instances, returned, nops>>
  /\ UNCHANGED <<evars, tvars, avars, fvars>>

\* thread_safe_base.py:98-104 (clear_all): the thread's dict, if there is one,
\* is emptied
Clear(t) ==
  /\ At(t, "clear")
  /\ attrs[Cur(t).attr].lock
  /\ attrs' = [attrs EXCEPT ![Cur(t).attr].d =
                 IF ident[t] \in DOMAIN @ THEN DictPut(@, ident[t], <<>>) ELSE @]
  /\ Goto(t, 1)
  /\ UNCHANGED <<threads, ident, current_threads, instances, returned, nops>>
  /\ UNCHANGED <<evars, tvars, avars, fvars>>

\* thread_safe_base.py:133-134 (cleanup_thread): nothing to do without the
\* attribute
ReturnUnless(t) ==
  /\ At(t, "return_unless")
  /\ IF attrs[Cur(t).attr].has THEN Goto(t, 1) ELSE tpc' = [tpc EXCEPT ![t] = Idle]
  /\ UNCHANGED <<attrs, threads, ident, current_threads, instances, returned, nops>>
  /\ UNCHANGED <<evars, tvars, avars, fvars>>

\* thread_safe_base.py:136: the ids of the threads alive at this moment
Enumerate(t) ==
  /\ At(t, "enumerate")
  /\ current_threads' = [current_threads EXCEPT ![t] = LiveIdents]
  /\ Goto(t, 1)
  /\ UNCHANGED <<attrs, threads, ident, instances, returned, nops>>
  /\ UNCHANGED <<evars, tvars, avars, fvars>>

\* thread_safe_base.py:138-141 and 144-147: under the lock, every entry whose
\* thread id is not in current_threads is deleted
Reap(t) ==
  LET a == Cur(t).attr
      dead_threads == DOMAIN attrs[a].d \ current_threads[t]
  IN
  /\ At(t, "reap")
  /\ attrs[a].lock
  /\ attrs' = [attrs EXCEPT ![a].d = [i \in DOMAIN @ \ dead_threads |-> @[i]]]
  /\ instances' = IF a = Global
                     THEN [u \in ThreadNames |->
                             instances[u] /\ ident[u] \notin dead_threads]
                     ELSE instances
  /\ Goto(t, 1)
  /\ UNCHANGED <<threads, ident, current_threads, returned, nops>>
  /\ UNCHANGED <<evars, tvars, avars, fvars>>

\* thread_safe_base.py:143: the polymorphic entries are looked at only when
\* the attribute is set
SkipUnless(t) ==
  /\ At(t, "skip_unless")
  /\ Goto(t, IF attrs[Cur(t).attr].has THEN 1 ELSE 2)
  /\ UNCHANGED <<attrs, threads, ident, current_threads, instances, returned, nops>>
  /\ UNCHANGED <<evars, tvars, avars, fvars>>

ThreadsNext ==
  \E t \in ThreadNames :
    \/ Start(t)
    \/ Exit(t)
    \/ \E method \in DOMAIN Methods : Begin(t, method)
    \/ HasAttr(t)
    \/ NewDict(t)
    \/ NewLock(t)
    \/ AttributeError(t)
    \/ Get(t)
    \/ SetItem(t)
    \/ Put(t)
    \/ Reset(t)
    \/ Clear(t)
    \/ ReturnUnless(t)
    \/ Enumerate(t)
    \/ Reap(t)
    \/ SkipUnless(t)

SpecThreads == ThreadsInit /\ [][ThreadsNext]_vars

(* ====================================================================== *)
(*        The agent's message history and the LLM call (generate)         *)
(* ====================================================================== *)

\* generate_next_message calls of one simulation
MaxTurns == 2

\* config.py:120
DEFAULT_MAX_RETRIES == 3

Agents == {"LLMAgent", "LLMSoloAgent"}

\* values of llm_args["num_retries"]; NoNum: the key is not set
NumRetries == {NoNum, 0, 1}

\* what one chat.completions.create call does: it returns a response whose
\* message holds tool calls, the stop token or plain text, or it raises
Replies == {"tool_call", "stop", "text"}
Errors == {"InternalServerError", "APIConnectionError", "BadRequestError"}

\* Python None where a message is expected
NoMessage == [role |-> "None", n |-> 0, body |-> ""]

\* the n-th message emitted in the simulation
Emit(role, n, body) == [role |-> role, n |-> n, body |-> body]

NotCalled == [kind |-> "none", value |-> NoMessage]
Return(value) == [kind |-> "return", value |-> value]
Raise(error) == [kind |-> "raise", value |-> NoMessage, error |-> error]

\* the classes of message an agent can be called with: a user message, a
\* tool message, the tool messages of one assistant turn, or None (the solo
\* agent's opening call)
MessageKinds == {"UserMessage", "ToolMessage", "MultiToolMessage", "None"}

\* the message of a class that comes in once e messages were emitted; a
\* MultiToolMessage holds its tool messages in tool-call order
Incoming(kind, e) ==
  [kind |-> kind,
   tool_messages |->
     IF kind = "UserMessage" THEN <<Emit("user", e + 1, "")>>
     ELSE IF kind = "ToolMessage" THEN <<Emit("tool", e + 1, "")>>
     ELSE IF kind = "MultiToolMessage"
       THEN <<Emit("tool", e + 1, ""), Emit("tool", e + 2, "")>>
     ELSE <<>>]

AgentInit ==
  /\ EvalParked
  /\ ToolsParked
  /\ ThreadsParked
  /\ FunctionsParked
  /\ agent \in Agents
  /\ messages = <<>>
  /\ num_retries \in NumRetries
  /\ apc = "idle"
  /\ message = <<>>
  /\ llm_attempt = 0
  /\ retry_delay = 0
  /\ slept = <<>>
  /\ created = <<>>
  /\ generated = NotCalled
  /\ replied = NotCalled
  /\ emitted = 0
  /\ nturns = 0

\* llm_utils.py:177-178, 260: num_retries defaults to DEFAULT_MAX_RETRIES and
\* max_retries = int(num_retries or 0)
max_retries == IF num_retries = NoNum THEN DEFAULT_MAX_RETRIES ELSE num_retries

\* llm_agent.py:92-95, 196-201: the incoming message goes to the history (the
\* solo agent takes None only on an empty history), then generate is entered
\* (llm_utils.py:260-263)
Receive(kind) ==
  LET m == Incoming(kind, emitted) IN
  /\ apc = "idle"
  /\ nturns < MaxTurns
  /\ m.kind = "None" => agent = "LLMSoloAgent"
  /\ nturns' = nturns + 1
  /\ message' = m
  /\ IF m.kind = "None" /\ Len(messages) # 0
       THEN /\ replied' = Raise("AssertionError")
            /\ apc' = "raised"
            /\ UNCHANGED <<messages, emitted, llm_attempt, retry_delay, slept,
                           created, generated>>
       ELSE /\ messages' = messages \o m.tool_messages
            /\ emitted' = emitted + Len(m.tool_messages)
            /\ apc' = "create"
            /\ llm_attempt' = 0
            /\ retry_delay' = 1
            /\ slept' = <<>>
            /\ created' = <<>>
            /\ generated' = NotCalled
            /\ replied' = NotCalled
  /\ UNCHANGED <<agent, num_retries>>
  /\ UNCHANGED <<evars, tvars, hvars, fvars>>

\* llm_utils.py:284-293: every exception of the call is handled alike: sleep
\* and go round again while attempt < max_retries, else re-raise
RetriesLeft(error) == llm_attempt < max_retries

\* llm_utils.py:330-333: the outer handler prints and logs the exception; the
\* function then ends without a return statement, which gives None
OuterExcept(error) == Return(NoMessage)

\* llm_utils.py:264-296, 298-329: one round of the retry loop
Create(r) ==
  /\ apc = "create"
  /\ created' = Append(created, r)
  /\ IF r \in Replies
       THEN /\ generated' = Return(Emit("assistant", emitted + 1, r))
            /\ emitted' = emitted + 1
            /\ apc' = "reply"
            /\ UNCHANGED <<llm_attempt, retry_delay, slept>>
       ELSE IF RetriesLeft(r)
         THEN /\ slept' = Append(slept, retry_delay)
              /\ retry_delay' = retry_delay * 2
              /\ llm_attempt' = llm_attempt + 1
              /\ UNCHANGED <<generated, emitted, apc>>
         ELSE /\ generated' = OuterExcept(r)
              /\ apc' = "reply"
              /\ UNCHANGED <<llm_attempt, retry_delay, slept, emitted>>
  /\ UNCHANGED <<agent, messages, num_retries, message, replied, nturns>>
  /\ UNCHANGED <<evars, tvars, hvars, fvars>>

\* llm_agent.py:214-215: the solo agent takes tool calls and the stop token.
\* On None the test itself fails (None has no is_tool_call).
SoloCheck(m) ==
  IF m = NoMessage THEN "AttributeError"
  ELSE IF m.body \notin {"tool_call", "stop"} THEN "ValueError"
  ELSE "ok"

\* llm_agent.py:109-111, 214-217: what generate gave back is appended to the
\* history and returned
Respond ==
  /\ apc = "reply"
  /\ IF agent = "LLMSoloAgent" /\ SoloCheck(generated.value) # "ok"
       THEN /\ replied' = Raise(SoloCheck(generated.value))
            /\ apc' = "raised"
            /\ UNCHANGED messages
       ELSE /\ messages' = Append(messages, generated.value)
            /\ replied' = Return(generated.value)
            /\ apc' = "idle"
  /\ UNCHANGED <<agent, num_retries, message, llm_attempt, retry_delay, slept,
                 created, generated, emitted, nturns>>
  /\ UNCHANGED <<evars, tvars, hvars, fvars>>

AgentNext ==
  \/ \E kind \in MessageKinds : Receive(kind)
  \/ \E r \in Replies \cup Errors : Create(r)
  \/ Respond

SpecAgent == AgentInit /\ [][AgentNext]_vars

(* ====================================================================== *)
(*   Metric functions (metrics/agent_metrics.py) and the comparison of    *)
(*   an expected action with a tool call (data_model/tasks.py)            *)
(* ====================================================================== *)

\* most trials of one task
MaxTrials == 4

RECURSIVE GCD(_, _)
GCD(a, b) == IF b = 0 THEN a ELSE GCD(b, a % b)

\* the float num / den (den > 0), kept as a fraction in lowest terms
Frac(num, den) ==
  LET g == GCD(num, den) IN [num |-> num \div g, den |-> den \div g]

\* 1.0 - x
OneMinus(x) == Frac(x.den - x.num, x.den)

\* math.comb(n, k) for n, k >= 0
RECURSIVE comb(_, _)
comb(n, k) ==
  IF k > n THEN 0
  ELSE IF k = 0 THEN 1
  ELSE (comb(n - 1, k - 1) * n) \div k

Gave(value) == [kind |-> "return", value |-> value]
Raised(error) == [kind |-> "raise", value |-> error]

\* agent_metrics.py:52-65
pass_hat_k(num_trials, success_count, k) ==
  IF num_trials < k THEN Raised("ValueError")
  ELSE Gave(Frac(comb(success_count, k), comb(num_trials, k)))

\* agent_metrics.py:68-92
pass_at_k_strict(num_trials, success_count, k) ==
  IF num_trials < k THEN Gave(Frac(0, 1))
  ELSE IF success_count > num_trials THEN Gave(Frac(0, 1))
  ELSE IF num_trials - success_count > k
    THEN Gave(OneMinus(Frac(comb(num_trials - success_count, k), comb(num_trials, k))))
  ELSE Gave(Frac(1, 1))

pass_at_k(num_trials, success_count, k) ==
  IF num_trials < k THEN Gave(Frac(0, 1))
  ELSE IF success_count > num_trials THEN Gave(Frac(0, 1))
  ELSE IF num_trials - success_count >= k
    THEN Gave(OneMinus(Frac(comb(num_trials - success_count, k), comb(num_trials, k))))
  ELSE Gave(Frac(1, 1))

\* agent_metrics.py:95-102; the rewards are in tenths
average_at_k(rewards, k) ==
  IF Len(rewards) < k THEN Gave(Frac(0, 1))
  ELSE IF k = 0 THEN Gave(Frac(0, 1))
  ELSE Gave(Frac(SumSeq(rewards), 10 * Len(rewards)))

\* argument dicts of an action or a tool call, and Action.compare_args (a
\* list of names, or None)
ArgNames == {"a", "b"}
ArgValues == {1, 2}
Arguments == UNION {[names -> ArgValues] : names \in SUBSET ArgNames}
None == [is_none |-> TRUE, names |-> <<>>]
List(names) == [is_none |-> FALSE, names |-> names]
CompareArgs == {None} \cup {List(names) : names \in {<<>>, <<"a">>, <<"b">>, <<"a", "b">>}}
ToolNames == {"f", "g"}

\* the arguments of d whose key is in keys
Restrict(d, keys) == [key \in DOMAIN d \cap keys |-> d[key]]

\* tasks.py:64-81
compare_with_tool_call(self, tool_call) ==
  IF self.name # tool_call.name THEN FALSE
  ELSE
    LET compare_args == IF self.compare_args = None
                          THEN DOMAIN tool_call.arguments
                          ELSE Range(self.compare_args.names)
        tool_args == Restrict(tool_call.arguments, compare_args)
        action_args == Restrict(self.arguments, compare_args)
    IN IF Cardinality(compare_args) = 0 THEN TRUE
       ELSE tool_args = action_args

NoAction == [name |-> "", arguments |-> <<>>, compare_args |-> None]
NoToolCall == [name |-> "", arguments |-> <<>>]
NoCall ==
  [fn |-> "", num_trials |-> 0, success_count |-> 0, k |-> 0, rewards |-> <<>>,
   self |-> NoAction, tool_call |-> NoToolCall]

Samples == UNION {[1..len -> {0, 5, 10}] : len \in 0..MaxTrials}

\* the calls made: the metrics of a task with n trials, c of them successful
\* (compute_metrics calls them for k = 1..num_trials), and the comparison of
\* an action with a tool call
Calls ==
  {[NoCall EXCEPT !.fn = fn, !.num_trials = n, !.success_count = c, !.k = nk] :
     fn \in {"pass_hat_k", "pass_at_k"}, n \in 0..MaxTrials, c \in 0..MaxTrials,
     nk \in 0..(MaxTrials + 1)}
  \cup
  {[NoCall EXCEPT !.fn = "average_at_k", !.rewards = rs, !.k = nk] :
     rs \in Samples, nk \in 0..(MaxTrials + 1)}
  \cup
  {[NoCall EXCEPT !.fn = "compare_with_tool_call",
                  !.self = [name |-> an, arguments |-> aa, compare_args |-> ca],
                  !.tool_call = [name |-> tn, arguments |-> ta]] :
     an \in ToolNames, aa \in Arguments, ca \in CompareArgs,
     tn \in ToolNames, ta \in Arguments}

NotComputed == [kind |-> "none", value |-> 0]

FunctionsInit ==
  /\ EvalParked
  /\ ToolsParked
  /\ ThreadsParked
  /\ AgentParked
  /\ fcall \in Calls
  /\ fresult = NotComputed

Computes(fn) ==
  /\ fcall.fn = fn
  /\ fresult = NotComputed
  /\ UNCHANGED fcall
  /\ UNCHANGED <<evars, tvars, hvars, avars>>

PassHatK ==
  /\ Computes("pass_hat_k")
  /\ fresult' = pass_hat_k(fcall.num_trials, fcall.success_count, fcall.k)

PassAtK ==
  /\ Computes("pass_at_k")
  /\ fresult' = pass_at_k(fcall.num_trials, fcall.success_count, fcall.k)

AverageAtK ==
  /\ Computes("average_at_k")
  /\ fresult' = average_at_k(fcall.rewards, fcall.k)

CompareWithToolCall ==
  /\ Computes("compare_with_tool_call")
  /\ fresult' = Gave(compare_with_tool_call(fcall.self, fcall.tool_call))

FunctionsNext == PassHatK \/ PassAtK \/ AverageAtK \/ CompareWithToolCall

SpecFunctions == FunctionsInit /\ [][FunctionsNext]_vars




(* ------------------- properties of the evaluator ---------------------- *)

\* the judges were consulted and their results partitioned (line 167 on)
Collected == Len(judge_records) > 0

NoJudgeCalled == \A i \in Panel : call_log[i] = <<>>

EveryJudgeExhausted ==
  /\ Len(llm_evaluators) >= 1
  /\ \A i \in Panel : call_log[i] = <<"raised", "raised", "raised">>

FailedPositions == {k \in DOMAIN judge_records : judge_records[k].status = "failed"}

\* the vote of panel position k as the claim defines it, from the raw result
ClaimedVote(k) ==
  IF judge_records[k].status = "success"
    THEN (IF results_by_name[llm_evaluators[k]].reward >= 5 THEN 1 ELSE 0)
    ELSE judge_records[k].replacement_vote

OnesAmong(ks) == Cardinality({k \in ks : ClaimedVote(k) = 1})

\* C1: a simulation that ended in TOO_MANY_ERRORS, MAX_STEPS or
\* INVALID_AGENT_MESSAGE is given reward 0.0 and no judge is ever called,
\* whatever the task and the panel.
C1_PrematureRewardZero ==
  termination_reason \in {"TOO_MANY_ERRORS", "MAX_STEPS", "INVALID_AGENT_MESSAGE"} =>
    /\ NoJudgeCalled
    /\ epc # "start" => /\ epc = "done"
                        /\ outcome.kind = "returned"
                        /\ outcome.reward = 0

C1_Witness ==
  /\ epc = "done"
  /\ termination_reason = "MAX_STEPS"
  /\ has_criteria
  /\ Len(llm_evaluators) = 3
  /\ outcome.reward = 0

\* C2: when every judge of the panel failed all three attempts, the
\* evaluation ends with EvaluationAbortedError and carries no reward.
C2_AllFailedAborts ==
  (EveryJudgeExhausted /\ epc # "judging") =>
    /\ epc = "done"
    /\ outcome.kind = "EvaluationAbortedError"
    /\ outcome.reward = NoNum

C2_Witness ==
  /\ EveryJudgeExhausted
  /\ Len(llm_evaluators) = 3
  /\ outcome.kind = "EvaluationAbortedError"

\* C3: with at least one successful judge the evaluation returns 1.0 when
\* strictly more than half of the n final votes are 1 and 0.0 otherwise; a
\* successful judge votes 1 iff its reward is >= 0.5, a failed judge votes
\* its substituted vote.
C3_MajorityReward ==
  (epc = "done" /\ Collected /\ Len(successes) >= 1) =>
    /\ outcome.kind = "returned"
    /\ outcome.reward \in {0, 10}
    /\ outcome.reward = 10 <=>
         2 * OnesAmong(DOMAIN judge_records) > Len(llm_evaluators)

C3_Witness ==
  /\ epc = "done"
  /\ outcome.kind = "returned"
  /\ Len(llm_evaluators) = 3
  /\ FailedPositions # {}
  /\ \E k \in DOMAIN judge_records :
       judge_records[k].status = "success" /\ judge_records[k].reward = 5
  /\ \E k \in DOMAIN judge_records :
       judge_records[k].status = "success" /\ judge_records[k].reward = 4
  /\ outcome.reward = 10

\* majority over the name-keyed dict final_votes_by_evaluator
DictMajority ==
  IF 2 * Cardinality({nm \in DOMAIN final_votes_by_evaluator :
                        final_votes_by_evaluator[nm] = 1})
       > Cardinality(DOMAIN final_votes_by_evaluator)
    THEN 1 ELSE 0

ReturnedNames ==
  {llm_evaluators[i] : i \in {j \in Panel : call_log[j] # <<>>
                                 /\ call_log[j][Len(call_log[j])] = "returned"}}

C7_NoCriteriaAlwaysOne ==
  (~has_criteria /\ epc = "done") =>
    /\ outcome.kind = "returned"
    /\ outcome.reward = 10
    /\ NoJudgeCalled

\* C7 (amended): a task without evaluation criteria gets reward 1.0 and no
\* judge call for every simulation that did not end in TOO_MANY_ERRORS,
\* MAX_STEPS or INVALID_AGENT_MESSAGE; for those the reward is 0.0.
C7_NoCriteriaOneUnlessPremature ==
  ~has_criteria =>
    /\ NoJudgeCalled
    /\ epc # "start" =>
         /\ epc = "done"
         /\ outcome.kind = "returned"
         /\ outcome.reward =
              (IF termination_reason \in
                    {"TOO_MANY_ERRORS", "MAX_STEPS", "INVALID_AGENT_MESSAGE"}
                 THEN 0 ELSE 10)

C7_Witness ==
  /\ ~has_criteria
  /\ termination_reason = "USER_STOP"
  /\ Len(llm_evaluators) = 3
  /\ epc = "done"
  /\ outcome.reward = 10

(* ====================================================================== *)
(*                     Properties of the order tools                      *)
(* ====================================================================== *)

\* the step is a tool call (not a tick of the clock); ret' is its reply
IsCall == ncalls' = ncalls + 1

PayTools ==
  {"pay_delivery_order", "pay_instore_order"} \cup {"pay_" \o sc \o "_order" : sc \in OtaScenes}
OtaCancelTools == {"cancel_" \o sc \o "_order" : sc \in OtaScenes}
CancelTools == {"cancel_delivery_order", "instore_cancel_order"} \cup OtaCancelTools
OtaModifyTools == {"modify_" \o sc \o "_order" : sc \in ModifyScenes}

\* the reply is a refusal: a message, or the message of a failed assert
Rejected(r) == r.kind \in {"msg", "assert"}

\* C8: over any sequence of delivery, instore and OTA tool calls, every change
\* of the status of an order is unpaid -> paid made by a pay tool, or a
\* non-cancelled status -> cancelled made by a cancel tool, or paid -> unpaid
\* made by modify_flight_order / modify_train_order with a new total above
\* the old one; orders are never removed.
C8_StatusTransitions ==
  [][\A id \in DOMAIN orders :
       /\ id \in DOMAIN orders'
       /\ orders'[id].status # orders[id].status =>
            \/ /\ orders[id].status = "unpaid"
               /\ orders'[id].status = "paid"
               /\ ret'.tool \in PayTools
            \/ /\ orders[id].status # "cancelled"
               /\ orders'[id].status = "cancelled"
               /\ ret'.tool \in CancelTools
            \/ /\ orders[id].status = "paid"
               /\ orders'[id].status = "unpaid"
               /\ ret'.tool \in OtaModifyTools
               /\ orders'[id].total_price > orders[id].total_price]_vars

\* a paid order was repriced upwards by a modification and is unpaid again
C8_Witness ==
  /\ ret.tool \in OtaModifyTools
  /\ ret.kind = "ok"
  /\ ret.diff > 0
  /\ orders[ret.id].status = "unpaid"

\* C9 as stated: a modify tool applied to an order whose status is not paid
\* is rejected, it returns a message and leaves the order unchanged.
C9_ModifyRejectsNonPaid ==
  [][(/\ IsCall
      /\ ret'.tool \in OtaModifyTools \cup {"modify_delivery_order"}
      /\ ret'.id \in DOMAIN orders
      /\ orders[ret'.id].status # "paid")
       => (Rejected(ret') /\ orders'[ret'.id] = orders[ret'.id])]_vars

\* C9 amended: modify_flight_order and modify_train_order applied to an order
\* whose status is not paid are rejected, they return a message and leave the
\* order unchanged; modify_delivery_order is rejected in that way only for a
\* cancelled order, and on a delivery order in any other status it replaces
\* the note and the update time and nothing else.
C9_ModifyRejection ==
  [][(IsCall /\ ret'.id \in DOMAIN orders) =>
       LET order == orders[ret'.id] IN
       /\ (ret'.tool \in OtaModifyTools /\ order.status # "paid")
            => (Rejected(ret') /\ orders' = orders /\ quantity' = quantity)
       /\ (ret'.tool = "modify_delivery_order" /\ order.status = "cancelled")
            => (Rejected(ret') /\ orders' = orders)
       /\ (/\ ret'.tool = "modify_delivery_order"
           /\ order.order_type = "delivery"
           /\ order.status # "cancelled")
            => /\ ret'.kind = "ok"
               /\ \E note \in NoteArgs :
                    orders' = [orders EXCEPT ![ret'.id].note = note,
                                             ![ret'.id].update_time = get_now]]_vars

\* a flight or train order that the user created and has not paid: its
\* modification was refused for its status
C9_Witness ==
  /\ ret.tool \in OtaModifyTools
  /\ ret.msg = "Only paid orders can be modified"
  /\ ret.id # EnvId
  /\ orders[ret.id].status = "unpaid"

\* C10 as stated: cancelling an order whose status is unpaid yields refund 0,
\* cancelling an order whose status is paid yields a refund equal to the
\* order's total_price at the moment of cancellation.
C10_CancelRefund ==
  [][(/\ IsCall
      /\ ret'.tool \in CancelTools
      /\ ret'.kind = "ok")
       => /\ orders[ret'.id].status = "unpaid" => ret'.refund = 0
          /\ orders[ret'.id].status = "paid" => ret'.refund = orders[ret'.id].total_price]_vars

\* C10 amended: cancelling a hotel, attraction, flight or train order with its
\* cancel tool reports refund 0 when the order's status is unpaid and a refund
\* equal to the order's total_price at the moment of cancellation when its
\* status is paid; cancel_delivery_order and instore_cancel_order report no
\* refund amount.
C10_OtaCancelRefund ==
  [][(IsCall /\ ret'.kind = "ok") =>
       /\ ret'.tool \in OtaCancelTools =>
            /\ orders[ret'.id].status = "unpaid" => ret'.refund = 0
            /\ orders[ret'.id].status = "paid"
                 => ret'.refund = orders[ret'.id].total_price
       /\ ret'.tool \in CancelTools \ OtaCancelTools => ret'.refund = NoNum]_vars

\* a paid order whose total a modification had changed was cancelled and the
\* refund is the changed total
C10_Witness ==
  /\ ret.tool \in OtaCancelTools
  /\ ret.kind = "ok"
  /\ ret.id = EnvId
  /\ ret.refund = orders[EnvId].total_price
  /\ ret.refund \notin {0, 12}

\* the cancel tool and the pay tool of each order type
CancelToolOf ==
  [delivery |-> "cancel_delivery_order", instore |-> "instore_cancel_order",
   hotel |-> "cancel_hotel_order", attraction |-> "cancel_attraction_order",
   flight |-> "cancel_flight_order", train |-> "cancel_train_order"]
PayToolOf ==
  [delivery |-> "pay_delivery_order", instore |-> "pay_instore_order",
   hotel |-> "pay_hotel_order", attraction |-> "pay_attraction_order",
   flight |-> "pay_flight_order", train |-> "pay_train_order"]

\* C11: a cancel tool called (with arguments that pass its assertions) on an
\* order of its type, a booking or a reservation that is already cancelled
\* returns an "already cancelled" message, raises nothing and leaves the whole
\* database unchanged, update_time included, at every repetition.
C11_CancelIdempotent ==
  [][(/\ IsCall
      /\ ret'.kind # "assert"
      /\ \/ /\ ret'.id \in DOMAIN orders
            /\ ret'.tool = CancelToolOf[orders[ret'.id].order_type]
            /\ orders[ret'.id].status = "cancelled"
         \/ /\ ret'.tool = "instore_cancel_book"
            /\ ret'.id \in DOMAIN books
            /\ books[ret'.id].status = "cancelled"
         \/ /\ ret'.tool = "instore_cancel_reservation"
            /\ ret'.id \in DOMAIN reservations
            /\ reservations[ret'.id].status = "cancelled")
       => /\ ret'.kind = "msg"
          /\ ret'.msg = "is already cancelled"
          /\ dbvars' = dbvars]_vars

\* an order made in this simulation was cancelled and then cancelled again
C11_Witness ==
  /\ ret.tool \in CancelTools
  /\ ret.msg = "is already cancelled"
  /\ ret.id \in DOMAIN orders
  /\ ret.id # EnvId
  /\ orders[ret.id].status = "cancelled"
  /\ ncalls = 3

\* C12: a pay tool called on an order of its type that is already paid is a
\* no-op: the database is unchanged (status, update_time and everything else)
\* and a descriptive string is returned, no exception.
C12_PayPaidNoOp ==
  [][(/\ IsCall
      /\ ret'.id \in DOMAIN orders
      /\ ret'.tool = PayToolOf[orders[ret'.id].order_type]
      /\ orders[ret'.id].status = "paid")
       => /\ ret'.kind = "msg"
          /\ ret'.msg \in {"Order status must be unpaid", "is not in unpaid status"}
          /\ dbvars' = dbvars]_vars

\* an order made in this simulation was paid and then paid again
C12_Witness ==
  /\ ret.tool \in PayTools
  /\ ret.kind = "msg"
  /\ ret.id \in DOMAIN orders
  /\ ret.id # EnvId
  /\ ret.tool = PayToolOf[orders[ret.id].order_type]
  /\ orders[ret.id].status = "paid"

\* C13: in every reachable state the quantity of every catalog product is at
\* least 0 (the initial quantities are), whatever create, pay, modify and
\* cancel calls were made.
C13_QuantityNonNegative ==
  \A o \in DOMAIN quantity : quantity[o] >= 0

\* a product is sold out and a further request for it was refused
C13_Witness ==
  /\ \E o \in DOMAIN quantity : quantity[o] = 0
  /\ ret.msg \in {"No available rooms", "Insufficient inventory"}

\* C14: cancel_hotel_order, cancel_attraction_order, cancel_flight_order and
\* cancel_train_order leave the quantity of every catalog product unchanged.
C14_CancelKeepsInventory ==
  [][(IsCall /\ ret'.tool \in OtaCancelTools) => quantity' = quantity]_vars

\* an order made in this simulation was cancelled and the units it took are
\* still missing from the catalog
C14_Witness ==
  /\ ret.tool \in OtaCancelTools
  /\ ret.kind = "ok"
  /\ ret.id # EnvId
  /\ LET order == orders[ret.id]
         item == order.products[1]
     IN \E i \in DOMAIN Catalog[order.store_id] :
          /\ Catalog[order.store_id][i].product_id = item.product_id
          /\ Catalog[order.store_id][i].date = item.date
          /\ quantity[<<order.store_id, i>>] < Catalog[order.store_id][i].quantity

\* C15: modify_train_order on a paid train order of the user, to a new date
\* whose product of the same seat type has fewer seats than the order's
\* quantity, returns the "Insufficient ... seat inventory" message and leaves
\* the order and all inventory (the whole database) unchanged.
C15_ModifyInsufficient ==
  [][(/\ IsCall
      /\ ret'.tool = "modify_train_order"
      /\ ret'.kind # "assert"
      /\ ret'.id \in DOMAIN orders
      /\ orders[ret'.id].order_type = "train"
      /\ orders[ret'.id].status = "paid"
      /\ Len(orders[ret'.id].products) = 1
      /\ LET order == orders[ret'.id]
             st == order.store_id
             n == FirstIndex({k \in DOMAIN Catalog[st] :
                                /\ Catalog[st][k].date = ret'.args
                                /\ Catalog[st][k].kind = order.products[1].kind})
         IN /\ n # 0
            /\ quantity[<<st, n>>] < ItemQuantity(order.products[1]))
       => /\ ret'.kind = "msg"
          /\ ret'.msg = "Insufficient inventory"
          /\ dbvars' = dbvars]_vars

\* a paid train order whose change of date was refused for lack of seats
C15_Witness ==
  /\ ret.tool = "modify_train_order"
  /\ ret.msg = "Insufficient inventory"
  /\ orders[ret.id].status = "paid"
  /\ orders[ret.id].products[1].date # ret.args

\* the catalog price of a delivery product
StorePrice(pid) ==
  LET i == CHOOSE k \in DOMAIN Catalog["S1"] : Catalog["S1"][k].product_id = pid
  IN Catalog["S1"][i].price

\* the order that a call of create_delivery_order with arguments a is to store
IsDeliveryOrderFor(order, a) ==
  /\ order.order_type = "delivery"
  /\ order.status = "unpaid"
  /\ order.user_id = a.user
  /\ order.store_id = a.store
  /\ Len(order.products) = Len(a.pids)
  /\ \A i \in DOMAIN a.pids :
       /\ order.products[i].product_id = a.pids[i]
       /\ order.products[i].quantity = a.cnts[i]
  /\ order.total_price =
       SumSeq([i \in DOMAIN a.pids |-> StorePrice(a.pids[i]) * a.cnts[i]])

\* the call passed its assertions and its product lookups, and asks for
\* products of the store
ValidCreate(r) ==
  /\ r.tool = "create_delivery_order"
  /\ r.kind \notin {"assert", "raise"}
  /\ \A i \in DOMAIN r.args.pids : r.args.pids[i] \in ProductIds(r.args.store)

\* C16 as stated: create_delivery_order with valid arguments stores an order
\* with status unpaid, a total of price x count summed over the ordered
\* products and an id beginning with OT; repeating the same call returns
\* "Order already exists", adds no second order and leaves the first as it is.
C16_CreateThenRepeat ==
  [][(IsCall /\ ValidCreate(ret')) =>
       IF ValidCreate(ret) /\ ret.kind = "ok" /\ ret'.args = ret.args
         THEN /\ ret'.msg = "Order already exists"
              /\ orders' = orders
         ELSE /\ ret'.kind = "ok"
              /\ ret'.id.id_prefix = "OT"
              /\ ret'.id \notin DOMAIN orders
              /\ DOMAIN orders' = DOMAIN orders \cup {ret'.id}
              /\ IsDeliveryOrderFor(orders'[ret'.id], ret'.args)]_vars

\* C16 amended: create_delivery_order with valid arguments, when no order is
\* stored under the id made from the user id and the present clock reading,
\* stores an order with status unpaid, a total of price x count summed over
\* the ordered products and an id beginning with OT, and changes no other
\* order; when an order is stored under that id (the same call, or any valid
\* call, was made at the same clock reading) it returns "Order already
\* exists", adds no order and changes none.  The same call repeated at a later
\* clock reading therefore stores a second order.
C16_CreateDeliveryOrder ==
  [][(IsCall /\ ValidCreate(ret')) =>
       LET id == assign_order_id("delivery", ret'.args.user, <<>>) IN
       IF id \in DOMAIN orders
         THEN /\ ret'.msg = "Order already exists"
              /\ orders' = orders
         ELSE /\ ret'.kind = "ok"
              /\ ret'.id = id
              /\ id.id_prefix = "OT"
              /\ DOMAIN orders' = DOMAIN orders \cup {id}
              /\ \A other \in DOMAIN orders : orders'[other] = orders[other]
              /\ IsDeliveryOrderFor(orders'[id], ret'.args)]_vars

\* the call that stored an order was repeated at the same clock reading and
\* refused
C16_Witness ==
  /\ ValidCreate(ret)
  /\ ret.msg = "Order already exists"
  /\ ret.id \in DOMAIN orders
  /\ IsDeliveryOrderFor(orders[ret.id], ret.args)
  /\ Len(ret.args.pids) = 2

\* the prefix of each scenario's ids and the parameters each scenario requires
IdPrefixOf ==
  [delivery |-> "OT", hotel |-> "OO", attraction |-> "OO", flight |-> "OO",
   train |-> "OO", instore |-> "OI", instore_book |-> "OI",
   instore_reservation |-> "OI"]

RequiredOf ==
  [delivery |-> {"user_id"}, hotel |-> {"hotel_id", "product_id", "user_id"},
   attraction |-> {"user_id"}, flight |-> {"user_id"}, train |-> {"user_id"},
   instore |-> {}, instore_book |-> {}, instore_reservation |-> {}]

\* the value a call gives to a parameter of its scenario
GivenTo(a, param) == IF param = "user_id" THEN a.user_id ELSE a.kw[param]

\* the call has a supported scenario and gives every parameter it requires
WellFormedId(a) ==
  /\ a.scenario \in DOMAIN IdPrefixOf
  /\ RequiredOf[a.scenario] \ {"user_id"} \subseteq DOMAIN a.kw

\* two well-formed calls agree on the scenario and on its required parameters
SameIdInputs(a, b) ==
  /\ a.scenario = b.scenario
  /\ \A param \in RequiredOf[a.scenario] : GivenTo(a, param) = GivenTo(b, param)

\* C17: assign_order_id is a function of the scenario, the scenario's required
\* parameters and the clock reading: a call with an unsupported scenario or a
\* missing required parameter is an error and yields no id; any other call
\* yields an id that begins with the scenario's prefix (OT for delivery, OO for
\* hotel, attraction, flight and train, OI for the instore scenarios) followed
\* by 10 hex characters; and two calls with the same scenario and required
\* parameters made at the same clock reading yield the same id.  The ids the
\* tools store carry the prefix of their scenario.
C17_AssignOrderId ==
  [][(IsCall /\ ret'.tool = "assign_order_id") =>
       LET a == ret'.args IN
       /\ IF WellFormedId(a)
            THEN /\ ret'.kind = "ok"
                 /\ ret'.id.id_prefix = IdPrefixOf[a.scenario]
                 /\ ret'.id.hex_digits = 10
            ELSE /\ ret'.kind = "raise"
                 /\ ret'.id = UnknownId
       /\ ( /\ ret.tool = "assign_order_id"
            /\ ret.kind = "ok"
            /\ WellFormedId(a)
            /\ SameIdInputs(ret.args, a)
            /\ ret.id.timestamp = wall )
          => ret'.id = ret.id
       /\ \A id \in DOMAIN orders' \ DOMAIN orders :
            id.id_prefix = IdPrefixOf[orders'[id].order_type]
       /\ \A id \in (DOMAIN books' \ DOMAIN books)
                      \cup (DOMAIN reservations' \ DOMAIN reservations) :
            id.id_prefix = "OI"]_vars

\* the third call asks for a hotel id with every required parameter and one
\* keyword more, at the second clock reading
C17_Witness ==
  /\ ret.tool = "assign_order_id"
  /\ ret.kind = "ok"
  /\ ret.args.scenario = "hotel"
  /\ DOMAIN ret.args.kw = {"hotel_id", "product_id", "room_type"}
  /\ ret.id.id_prefix = "OO"
  /\ ret.id.timestamp = 2
  /\ ncalls = 3

\* the registries in which thread u has an entry that it registered itself
EntriesOf(u) ==
  {a \in Attrs : /\ ident[u] \in DOMAIN attrs[a].d
                 /\ InstanceKey \in DOMAIN attrs[a].d[ident[u]]
                 /\ attrs[a].d[ident[u]][InstanceKey] = u}

ClearMethods == {"clear_thread_data", "clear_all", "cleanup_thread"}

\* thread t takes a step of one of the clearing methods
ClearingStep(t) == tpc[t] # Idle /\ tpc[t].method \in ClearMethods /\ tpc'[t] # tpc[t]

\* get_all and get_all_polymorphic give a thread only what it registered
ReturnsOwnEntries ==
  \A t \in ThreadNames :
    threads[t] = "live" => \A k \in DOMAIN returned[t] : returned[t][k] = t

\* C18: the entities one thread registered are never returned by get_all or
\* get_all_polymorphic in another thread, and no step of clear_thread_data,
\* clear_all or cleanup_thread taken by one thread removes or alters an entry
\* of another live thread, whatever the interleaving.
C18_ThreadIsolation ==
  [][/\ ReturnsOwnEntries'
     /\ \A t \in ThreadNames :
          ClearingStep(t) =>
            \A u \in ThreadNames \ {t} :
              (threads[u] = "live" /\ threads'[u] = "live") =>
                EntriesOf(u) \subseteq EntriesOf(u)']_vars

\* the product ids of the simulation's own environment
EnvironmentProducts == UNION {ProductIds(st) : st \in StoreIds}

\* a call of create_delivery_order by the user for a store of the environment
\* that names a product the environment does not hold
AsksForForeignProduct(r) ==
  /\ r.tool = "create_delivery_order"
  /\ r.args.user = DbUser
  /\ r.args.store \in StoresOf("delivery")
  /\ \E i \in DOMAIN r.args.pids : r.args.pids[i] \notin EnvironmentProducts

\* C19: no state leaks between simulations: a tool never finds a product that
\* is not part of the simulation's own environment, also when an earlier
\* simulation on the same thread registered it: create_delivery_order for such
\* a product fails with "not found" and stores nothing.
C19_NoLeakBetweenSimulations ==
  [][(IsCall /\ AsksForForeignProduct(ret')) =>
       /\ ret'.kind = "raise"
       /\ orders' = orders
       /\ registry' = registry]_vars

\* the catalog entries that carry the product id pid
CatalogEntries(pid) == {o \in CatalogObjs : Catalog[o[1]][o[2]].product_id = pid}

\* C20: in every reachable state there is exactly one catalog entry per store id
\* (the stores are the values of a dict keyed by store id) and exactly one per
\* product id, and the lookup of a product by its id gives that catalog entry.
C20_OneCatalogEntryPerId ==
  \A pid \in EnvironmentProducts :
    /\ Cardinality(CatalogEntries(pid)) = 1
    /\ pid \in DOMAIN registry
    /\ registry[pid] = AliasItem(CHOOSE o \in CatalogEntries(pid) : TRUE)

\* the assertions of create_delivery_order that follow the product lookups
LaterAssertionsHold(a) ==
  /\ a.address # ""
  /\ Len(a.pids) = Len(a.cnts)
  /\ \A i \in DOMAIN a.cnts : a.cnts[i] > 0
  /\ check_time_format(a.dispatch)
  /\ a.dispatch >= get_now

\* C21: a failed assertion of a tool comes back as the assertion's message, a
\* string, and the database is unchanged; an exception that is no assertion
\* failure reaches the caller.  For create_delivery_order: a wrong user, an
\* unknown store and, once the products are found, every later failed
\* assertion is returned as a message; a product that is not registered makes
\* the lookup raise ValueError, which is not turned into a string.
C21_AssertionReturnsMessage ==
  [][IsCall =>
       /\ ret'.kind = "assert" => (ret'.msg # "" /\ UNCHANGED dbvars)
       /\ ret'.tool = "create_delivery_order" =>
            LET a == ret'.args
                known == a.user = DbUser /\ a.store \in StoresOf("delivery")
                found == \A i \in DOMAIN a.pids : HasStoreProduct(a.pids[i])
            IN /\ ~known => ret'.kind = "assert"
               /\ (known /\ ~found) => ret'.kind = "raise"
               /\ (known /\ found /\ ~LaterAssertionsHold(a)) => ret'.kind = "assert"
               /\ (known /\ found /\ LaterAssertionsHold(a)) =>
                    ret'.kind \notin {"assert", "raise"}]_vars

\* with an order in the database, a call with a dispatch time in the past
\* has been answered with the assertion's message
C21_Witness ==
  /\ ret.tool = "create_delivery_order"
  /\ ret.kind = "assert"
  /\ ret.msg = "dispatch_time must be in the future"
  /\ ret.args.dispatch = PastTime
  /\ \E id \in DOMAIN orders : id # EnvId

TerminalStatuses == {"consumed", "cancelled"}

\* a call of instore_modify_reservation that passed its assertions
ModifiesReservation(r) == r.tool = "instore_modify_reservation" /\ r.kind # "assert"

\* instore_modify_reservation changes a reservation only when its status is
\* neither consumed nor cancelled; otherwise it answers with a message and
\* the reservation stays as it was
ModifyOnlyWhenNotTerminal ==
  (IsCall /\ ModifiesReservation(ret') /\ ret'.id \in DOMAIN reservations) =>
     IF reservations[ret'.id].status \in TerminalStatuses
       THEN ret'.kind = "msg" /\ reservations' = reservations
       ELSE /\ ret'.kind = "ok"
            /\ reservations'[ret'.id].status = reservations[ret'.id].status

\* C22 as stated: a reservation is modified only when it is not terminal, and
\* no tool moves a reservation out of a terminal status (consumed, cancelled).
C22_TerminalReservationStays ==
  [][/\ ModifyOnlyWhenNotTerminal
     /\ \A id \in DOMAIN reservations :
          reservations[id].status \in TerminalStatuses =>
            reservations'[id].status = reservations[id].status]_vars

\* C22: a reservation is modified only when it is not terminal; a cancelled
\* reservation keeps its status and all its fields whatever tool is called;
\* a consumed reservation is changed by no tool but instore_cancel_reservation,
\* which sets it to cancelled.
C22_ModifyOnlyNonTerminal ==
  [][/\ ModifyOnlyWhenNotTerminal
     /\ \A id \in DOMAIN reservations :
          /\ reservations[id].status = "cancelled" => reservations'[id] = reservations[id]
          /\ reservations[id].status = "consumed" =>
               \/ reservations'[id] = reservations[id]
               \/ /\ ret'.tool = "instore_cancel_reservation"
                  /\ ret'.id = id
                  /\ reservations'[id].status = "cancelled"]_vars

\* a consumed reservation was asked to be modified with well-formed arguments
\* and still is as the environment gave it
C22_Witness ==
  /\ ModifiesReservation(ret)
  /\ ret.kind = "msg"
  /\ ret.id = EnvId
  /\ EnvId \in DOMAIN reservations
  /\ reservations[EnvId] = EnvReservation("consumed")

\* C23: after a successful modify_train_order or modify_flight_order the
\* order's total_price is the unit price of the product of the new date times
\* the order's quantity, and its status is unpaid if the new total exceeds the
\* old total and is otherwise the status it had, paid.
C23_ModifyReprices ==
  [][(IsCall /\ ret'.tool \in OtaModifyTools /\ ret'.kind = "ok") =>
       LET old == orders[ret'.id]
           new == orders'[ret'.id]
           qty == ItemQuantity(old.products[1])
           offers == {k \in DOMAIN Catalog[old.store_id] :
                        /\ Catalog[old.store_id][k].date = ret'.args
                        /\ Catalog[old.store_id][k].kind = old.products[1].kind}
           unit_price == Catalog[old.store_id][CHOOSE k \in offers : TRUE].price
       IN /\ offers # {}
          /\ old.status = "paid"
          /\ new.total_price = unit_price * qty
          /\ new.products[1].quantity = qty
          /\ new.status = IF new.total_price > old.total_price THEN "unpaid" ELSE "paid"]_vars

\* an order of two tickets was moved to a cheaper date and is still paid
C23_Witness ==
  /\ ret.tool \in OtaModifyTools
  /\ ret.kind = "ok"
  /\ ret.diff < 0
  /\ orders[ret.id].status = "paid"
  /\ orders[ret.id].products[1].quantity = 2
  /\ orders[ret.id].total_price = 10

\* C24: instore_reservation adds a reservation only for a merchant that
\* supports the reservation service, as instore_book adds a booking only for
\* a merchant that supports booking: every booking is at a shop with
\* enable_book and every reservation at a shop with enable_reservation.
C24_ReservationNeedsSupport ==
  /\ \A id \in DOMAIN books : Shops[books[id].shop_id].enable_book
  /\ \A id \in DOMAIN reservations : Shops[reservations[id].shop_id].enable_reservation

(* ------------------------------ C28 ----------------------------------- *)
\* evaluate_simulation gets as far as its panel: the simulation did not end
\* prematurely and the task has evaluation criteria
ReachesPanel ==
  /\ termination_reason \notin {"TOO_MANY_ERRORS", "MAX_STEPS", "INVALID_AGENT_MESSAGE"}
  /\ has_criteria

OddPanel ==
  /\ Len(llm_evaluators) >= 1
  /\ Len(llm_evaluators) % 2 = 1
  /\ n_args = Len(llm_evaluators)

\* C28: whenever evaluate_simulation consults judges the panel has odd size
\* >= 1 and as many configs as names; a panel that is empty, of even size or
\* whose name and config lists differ in length ends the call with a
\* ValueError and not one judge call is made.
C28_OddPanelOrError ==
  /\ ~NoJudgeCalled => OddPanel
  /\ epc = "judging" => OddPanel
  /\ (ReachesPanel /\ ~OddPanel /\ epc # "start") =>
       /\ epc = "done"
       /\ outcome.kind = "ValueError"
       /\ NoJudgeCalled

C28_Witness ==
  /\ ReachesPanel
  /\ Len(llm_evaluators) = 2
  /\ n_args = 2
  /\ epc = "done"
  /\ outcome.kind = "ValueError"
  /\ NoJudgeCalled

(* ------------------------------ C25 ----------------------------------- *)
\* the history holds messages only, each emitted after the one before it
InEmissionOrder(history) ==
  /\ \A i \in DOMAIN history : history[i].role \in {"user", "tool", "assistant"}
  /\ \A i \in 1..(Len(history) - 1) : history[i].n < history[i + 1].n

\* C25: the agent's history is in emission order.  A generate_next_message
\* call first appends the incoming message (the tool messages of a
\* MultiToolMessage in their order), leaves the history alone while the LLM
\* is called, and last appends the assistant message it returns (a call that
\* raises appends nothing more); earlier entries are never touched.
C25_HistoryInEmissionOrder ==
  [][ /\ (apc = "idle" /\ apc' = "create") =>
           messages' = messages \o message'.tool_messages
      /\ (apc = "idle" /\ apc' = "raised") => messages' = messages
      /\ apc = "create" => messages' = messages
      /\ (apc = "reply" /\ replied'.kind = "raise") => messages' = messages
      /\ (apc = "reply" /\ replied'.kind = "return") =>
           /\ replied'.value.role = "assistant"
           /\ messages' = Append(messages, replied'.value)
      /\ InEmissionOrder(messages') ]_vars

(* ------------------------------ C26 ----------------------------------- *)
\* the last chat.completions.create of the generate call raised and the
\* call is over: the retries are exhausted
RetriesExhausted ==
  /\ generated.kind # "none"
  /\ created # <<>>
  /\ created[Len(created)] \in {"InternalServerError", "APIConnectionError", "BadRequestError"}

\* C26: when the LLM call still fails after the last retry, generate raises;
\* whenever generate returns, it returns an assistant message.
C26_ExhaustedRetriesPropagate ==
  /\ RetriesExhausted => generated.kind = "raise"
  /\ generated.kind = "return" => generated.value.role = "assistant"

(* ------------------------------ C27 ----------------------------------- *)
\* C27: only an HTTP 500 or a connection error is followed by another
\* attempt; there are at most 3 retries; the waits are 1 s, 2 s, 4 s, one
\* before each retry; an HTTP 4xx error ends the call at its first attempt.
C27_RetryPolicy ==
  /\ \A i \in 1..(Len(created) - 1) :
       created[i] \in {"InternalServerError", "APIConnectionError"}
  /\ Len(created) <= 1 + 3
  /\ Len(slept) <= 3
  /\ \A i \in DOMAIN slept : slept[i] = 2 ^ (i - 1)
  /\ apc = "create" => Len(slept) = Len(created)
  /\ apc = "reply" => Len(slept) = Len(created) - 1
  /\ (created # <<>> /\ created[1] = "BadRequestError") => Len(created) = 1

(* ------------------------------ C29 ----------------------------------- *)
\* the number of k-element subsets of an n-element set
Choose(n, k) == Cardinality({S \in SUBSET (1..n) : Cardinality(S) = k})

\* the function returned the number num / den
Returned(num, den) ==
  /\ fresult.kind = "return"
  /\ fresult.value.num * den = num * fresult.value.den

\* C29: for 0 <= c <= n and k >= 1, pass_hat_k is C(c,k)/C(n,k) when k <= n;
\* pass_at_k is 1 - C(n-c,k)/C(n,k) when n-c >= k, 1.0 when n-c < k <= n and
\* 0.0 when n < k; average_at_k is the mean of the rewards when there are at
\* least k of them and k > 0, else 0.0.
C29_Metrics ==
  LET n == fcall.num_trials
      c == fcall.success_count
      nk == fcall.k
      rewards == fcall.rewards
  IN fresult # NotComputed =>
       /\ (fcall.fn = "pass_hat_k" /\ c <= n /\ nk >= 1 /\ nk <= n) =>
            Returned(Choose(c, nk), Choose(n, nk))
       /\ (fcall.fn = "pass_at_k" /\ c <= n /\ nk >= 1) =>
            IF n - c >= nk
              THEN Returned(Choose(n, nk) - Choose(n - c, nk), Choose(n, nk))
            ELSE IF nk <= n THEN Returned(1, 1)
            ELSE Returned(0, 1)
       /\ fcall.fn = "average_at_k" =>
            IF Len(rewards) >= nk /\ nk > 0
              THEN Returned(SumSeq(rewards), 10 * Len(rewards))
              ELSE Returned(0, 1)

C29_Witness ==
  /\ fcall.fn = "pass_at_k"
  /\ fcall.num_trials = 4
  /\ fcall.success_count = 2
  /\ fcall.k = 2
  /\ fresult = [kind |-> "return", value |-> [num |-> 5, den |-> 6]]

(* ------------------------------ C30 ----------------------------------- *)
\* the two argument dicts agree on the key: both lack it, or both hold it
\* with the same value
Agree(action_args, tool_args, key) ==
  /\ key \in DOMAIN action_args <=> key \in DOMAIN tool_args
  /\ key \in DOMAIN action_args => action_args[key] = tool_args[key]

\* the compared arguments: those of compare_args, or every argument of the
\* action and of the tool call when compare_args is None
Compared(self, tool_call) ==
  IF self.compare_args.is_none
    THEN DOMAIN self.arguments \cup DOMAIN tool_call.arguments
    ELSE {self.compare_args.names[i] : i \in DOMAIN self.compare_args.names}

\* C30: compare_with_tool_call is true exactly when the names are equal and
\* the action and the tool call agree on every compared argument.
C30_CompareWithToolCall ==
  (fcall.fn = "compare_with_tool_call" /\ fresult # NotComputed) =>
    fresult.value =
      (/\ fcall.self.name = fcall.tool_call.name
       /\ \A key \in Compared(fcall.self, fcall.tool_call) :
            Agree(fcall.self.arguments, fcall.tool_call.arguments, key))

(* ------------------------------ C31 ----------------------------------- *)
\* the value that more than half of the final votes take
TrueMajority ==
  IF 2 * Cardinality({k \in DOMAIN final_votes : final_votes[k] = 1}) > Len(final_votes)
    THEN 1 ELSE 0

\* the judges that returned and whose own reward is a vote for v
SuccessesVoting(v) ==
  {k \in DOMAIN judge_records :
     /\ judge_records[k].status = "success"
     /\ (IF results_by_name[judge_records[k].llm_evaluator].reward >= 5 THEN 1 ELSE 0) = v}

\* every judge_record has its final vote
AllVotesIn ==
  /\ epc \in {"replacing", "done"}
  /\ Len(judge_records) > 0
  /\ Len(final_votes) = Len(judge_records)

\* C31: when at least one judge succeeded, some successful judge's own vote
\* is the majority vote whatever the outcomes and the replacement picks, so
\* the selection of the chosen record never fails, and the record returned
\* is that of a judge that itself voted with the majority.
C31_ChosenVotedWithMajority ==
  /\ outcome.kind # "StopIteration"
  /\ AllVotesIn => SuccessesVoting(TrueMajority) # {}
  /\ (AllVotesIn /\ epc = "done") =>
       /\ outcome.kind = "returned"
       /\ outcome.majority_vote = TrueMajority
       /\ \E k \in SuccessesVoting(TrueMajority) :
            judge_records[k].llm_evaluator = outcome.chosen

C31_Witness ==
  /\ AllVotesIn
  /\ epc = "done"
  /\ Len(judge_records) = 3
  /\ judge_records[1].status = "success"
  /\ judge_records[1].vote = 0
  /\ judge_records[2].status = "failed"
  /\ judge_records[3].status = "success"
  /\ outcome.majority_vote = 1
  /\ outcome.chosen = judge_records[3].llm_evaluator

(* ------------------------------ C32 ----------------------------------- *)
\* what the judge at panel position k did, from its own calls alone
JudgeReturned(k) ==
  call_log[k] # <<>> /\ call_log[k][Len(call_log[k])] = "returned"

\* the vote a reward stands for
VoteOfReward(reward) == IF reward >= 5 THEN 1 ELSE 0

\* the final vote of panel position k, from the judges' outcomes and the
\* replacement picked for k
VoteOfPosition(k) ==
  IF JudgeReturned(k)
    THEN VoteOfReward(results_by_name[llm_evaluators[k]].reward)
    ELSE VoteOfReward(results_by_name[judge_records[k].replacement_picked].reward)

RegisterMethods ==
  {"register_instance", "register_polymorphic_instance", "get_all", "get_all_polymorphic"}

\* thread t takes a step of a registration or of a lookup
RegisteringStep(t) ==
  tpc[t] # Idle /\ tpc[t].method \in RegisterMethods /\ tpc'[t] # tpc[t]

\* C33: whatever the interleaving of the threads' first registrations, no
\* step of a registration or lookup removes what a live thread registered:
\* the instance stays in the registry, where that thread's get_all /
\* get_all_polymorphic finds it.
C33_NoLostRegistration ==
  [][\A t \in ThreadNames :
       RegisteringStep(t) =>
         \A u \in ThreadNames :
           (threads[u] = "live" /\ threads'[u] = "live") =>
             EntriesOf(u) \subseteq EntriesOf(u)']_vars

(* ------------------------------ C34 ----------------------------------- *)
\* C34: create_delivery_order does not alter the product catalog: after a
\* successful order the lookup of every ordered product id gives the record
\* it gave before the order, with the same quantity and attributes.
C34_OrderKeepsCatalog ==
  [][(IsCall /\ ret'.tool = "create_delivery_order" /\ ret'.kind = "ok") =>
       \A i \in DOMAIN ret'.args.pids :
         /\ ret'.args.pids[i] \in DOMAIN registry'
         /\ registry'[ret'.args.pids[i]] = registry[ret'.args.pids[i]]]_vars

(* ------------------------------ C35 ----------------------------------- *)
\* C35: for every instore order of the database, in every reachable state,
\* total_price = products[0].quantity x products[0].price: creating another
\* order for the same product leaves the line item of an existing order as
\* it was.
C35_InstoreTotalIsLineTotal ==
  \A id \in DOMAIN orders :
    orders[id].order_type = "instore" =>
      orders[id].total_price =
        ItemQuantity(orders[id].products[1]) * orders[id].products[1].price

(* ------------------------------ C36 ----------------------------------- *)
OtaCreateTools == {"create_" \o sc \o "_order" : sc \in {"hotel", "attraction", "flight", "train"}}

\* the catalog objects a stored order's line item was booked from
BookedFrom(order) ==
  {o \in CatalogObjs :
     /\ o[1] = order.store_id
     /\ Catalog[o[1]][o[2]].product_id = order.products[1].product_id
     /\ Catalog[o[1]][o[2]].date = order.products[1].date}

\* C36: a create_hotel / attraction / flight / train order call that adds
\* no order (any error return, "Order already exists" included) leaves every
\* product quantity as it was; a call that adds an order takes the booked
\* amount (1 for a hotel room) from the booked product and nothing from any
\* other.
C36_CreateTakesStockOnlyWithOrder ==
  [][(IsCall /\ ret'.tool \in OtaCreateTools) =>
       IF DOMAIN orders' = DOMAIN orders
         THEN quantity' = quantity
         ELSE \E id \in DOMAIN orders' \ DOMAIN orders :
                /\ orders'[id].order_type = "hotel" => orders'[id].products[1].quantity = 1
                /\ \E o \in BookedFrom(orders'[id]) :
                     quantity' = [quantity EXCEPT ![o] = @ - orders'[id].products[1].quantity]]_vars

(* ------------------------------ C37 ----------------------------------- *)
\* the entry of a table is kept with its status, price and update time
Kept(table, after, id) ==
  /\ id \in DOMAIN after
  /\ after[id].status = table[id].status
  /\ after[id].update_time = table[id].update_time

\* C37: cancelled is absorbing for every tool: once an order, booking or
\* reservation is cancelled, no pay, modify, cancel or create call changes
\* its status, total_price or update_time.
C37_CancelledIsAbsorbing ==
  [][IsCall =>
       /\ \A id \in DOMAIN orders :
            orders[id].status = "cancelled" =>
              /\ Kept(orders, orders', id)
              /\ orders'[id].total_price = orders[id].total_price
       /\ \A id \in DOMAIN books :
            books[id].status = "cancelled" => Kept(books, books', id)
       /\ \A id \in DOMAIN reservations :
            reservations[id].status = "cancelled" =>
              Kept(reservations, reservations', id)]_vars

\* a delivery order was cancelled and a later modify_delivery_order for it
\* was refused
C37_Witness ==
  /\ ret.tool = "modify_delivery_order"
  /\ ret.kind = "msg"
  /\ ret.id \in DOMAIN orders
  /\ orders[ret.id].status = "cancelled"
  /\ orders[ret.id].update_time < wall
  /\ orders[ret.id].note = ""

\* C38: a successful modify_train_order or modify_flight_order conserves
\* inventory: the product of the order's old date and seat type gains exactly
\* the order's quantity, the product of the new date and seat type loses
\* exactly that quantity (no net change when they are the same product), and
\* no other product's quantity changes.
OldSeats(obj, order) ==
  /\ obj[1] = order.store_id
  /\ Catalog[obj[1]][obj[2]].date = order.products[1].date
  /\ Catalog[obj[1]][obj[2]].kind = order.products[1].kind

NewSeats(obj, order, new_date) ==
  /\ obj[1] = order.store_id
  /\ Catalog[obj[1]][obj[2]].date = new_date
  /\ Catalog[obj[1]][obj[2]].kind = order.products[1].kind

C38_ModifyConservesInventory ==
  [][(IsCall /\ ret'.tool \in OtaModifyTools /\ ret'.kind = "ok") =>
       LET order == orders[ret'.id]
           booked == ItemQuantity(order.products[1])
       IN \A obj \in CatalogObjs :
            quantity'[obj] = quantity[obj]
                               + (IF OldSeats(obj, order) THEN booked ELSE 0)
                               - (IF NewSeats(obj, order, ret'.args) THEN booked ELSE 0)]_vars

\* A train order moved from the first date to the second: the first date's
\* seats are back above their starting stock, the second date's are below.
C38_Witness ==
  /\ ret.tool = "modify_train_order"
  /\ ret.kind = "ok"
  /\ ret.args = "d2"
  /\ quantity[<<"T1", 2>>] < Catalog["T1"][2].quantity
  /\ orders[ret.id].products[1].date = "d2"

\* C39: a pay, cancel, modify or detail tool of one order type never changes
\* an order of another type: called with the id of an order of a different
\* type, or with an id the database does not hold, it returns an error
\* message and leaves the database unchanged.
OrderToolsOf(type) ==
  {PayToolOf[type], CancelToolOf[type],
   "modify_" \o type \o "_order", "get_" \o type \o "_order_detail",
   "get_" \o type \o "_order_status"}

C39_OtherTypesOrdersUntouched ==
  [][\A type \in OrderType :
       (/\ IsCall
        /\ ret'.tool \in OrderToolsOf(type)
        /\ \/ ret'.id \notin DOMAIN orders
           \/ orders[ret'.id].order_type # type)
       => /\ ret'.kind \in {"msg", "assert"}
          /\ dbvars' = dbvars]_vars

\* pay_instore_order was called with the id of an unpaid delivery order and
\* answered with a message; the order is still unpaid.
C39_Witness ==
  /\ ret.tool = "pay_instore_order"
  /\ ret.kind = "msg"
  /\ ret.id \in DOMAIN orders
  /\ orders[ret.id].order_type = "delivery"
  /\ orders[ret.id].status = "unpaid"

\* C40: a call of a tool classified READ or GENERIC leaves the database
\* unchanged, whatever its arguments and whether it returns a result, returns
\* an error string or raises; hence only tools classified WRITE change orders,
\* bookings, reservations or inventory.
C40_ReadToolsKeepDatabase ==
  [][(/\ IsCall
      /\ kit # "db"
      /\ tool_type(ret'.tool) \in {"read", "generic"})
     => dbvars' = dbvars]_vars

\* search_instore_book has raised for an id that is no booking while the
\* database holds a booking.
C40_Witness ==
  /\ ret.tool = "search_instore_book"
  /\ ret.kind = "raise"
  /\ books # <<>>

====
